---------------------------- MODULE Spec2Model ----------------------------
(***************************************************************************)
(* A state-machine model of mogptk's inference-model layer                 *)
(* (src/mogptk/gpr/model.py): the base class Model, its registry of        *)
(* Parameters, its input validation, its Cholesky primitive, loss() and    *)
(* sample(), and the variants Exact, Snelson, OpperArchambeau, Titsias,    *)
(* SparseHensman and Hensman.                                              *)
(*                                                                         *)
(* Representation.                                                         *)
(*  - A tensor is known by its shape, a sequence of naturals (<<>> is a    *)
(*    scalar).  A matrix that is factorized is known by its entries.       *)
(*  - Python's None is <<>> and a value that is present is <<v>>.          *)
(*  - objs is the heap of the objects the model refers to (kernels, means, *)
(*    likelihoods, lists, Parameters); an object is known by its index.    *)
(*  - self is the model's __dict__: attribute name |-> <<type, payload>>.  *)
(***************************************************************************)
EXTENDS Integers, Sequences, FiniteSets, TLC

VARIABLES
    objs,    \* the heap: objs[i] is the object with identity i
    self,    \* the model's attributes (its __dict__)
    cls,     \* the model's class, "" while no model is constructed
    pc,      \* "new": no model yet; "failed": the constructor raised;
             \* "returned": a call has ended; "ready": the caller goes on
    call,    \* the last call made by the caller: [op, args]
    ret,     \* how the last call ended: [err, K, model, val]
    steps    \* the calls the last operation made, in order

vars == <<objs, self, cls, pc, call, ret, steps>>

---------------------------------------------------------------------------
(* Bounds of the model.                                                    *)

MaxObjs == 3
MaxItems == 2
MaxDim == 2
MaxEntry == 1
MaxGrad == 2
MaxPrior == 2

---------------------------------------------------------------------------
(* Values.                                                                 *)

None == <<>>
Some(v) == <<v>>

RECURSIVE SeqsUpTo(_, _)
SeqsUpTo(S, n) ==
    IF n = 0 THEN {<<>>}
    ELSE LET shorter == SeqsUpTo(S, n - 1)
         IN  shorter \cup {Append(s, x) : s \in {t \in shorter : Len(t) = n - 1}, x \in S}

Range(s) == {s[i] : i \in 1..Len(s)}


Max(a, b) == IF a >= b THEN a ELSE b

---------------------------------------------------------------------------
(* The heap.  An object is a record                                        *)
(*   kind        "Parameter", "list", "Kernel", "Mean", "Likelihood" or    *)
(*               "other" (any object the registry does not walk)           *)
(*   name        its name attribute: None or Some(string)                  *)
(*   items       a list's elements, or the values of an object's __dict__  *)
(*               that are objects, in insertion order                      *)
(*   output_dims a kernel's output_dims                                    *)
(*   shape       a Parameter's shape                                       *)
(*   trainable, prior, grad                                                *)
(*               a Parameter's flag, the log-density of its prior at its   *)
(*               value (None: no prior) and the .grad of its unconstrained *)
(*               tensor (None: no gradient yet)                            *)

Walked == {"Kernel", "Mean", "Likelihood"}

NewObject(kind, name, items) ==
    [kind |-> kind, name |-> name, items |-> items, output_dims |-> 1,
     shape |-> <<>>, trainable |-> FALSE, prior |-> None, grad |-> None]

Parameter(shape, name, trainable, prior) ==
    [kind |-> "Parameter", name |-> name, items |-> <<>>, output_dims |-> 1,
     shape |-> shape, trainable |-> trainable, prior |-> prior, grad |-> None]

(* Model._register_parameters, lines 125-141.  st = [objs, _params] is the *)
(* heap and the registry list as the traversal has left them; name is the  *)
(* name argument (None or Some(string)).  RegisterEach is the loop of      *)
(* lines 137-138 (a list) and of lines 140-141 (a kernel, mean or          *)
(* likelihood), from item i on.                                            *)
ChildName(o, name, i) ==
    IF o.kind = "list"
    THEN Some((IF name # None THEN name[1] ELSE "") \o "[" \o ToString(i - 1) \o "]")
    ELSE Some((IF name # None THEN name[1] \o "." ELSE "") \o o.name[1])

RegisterParameter(st, obj, name) ==
    LET o  == st.objs[obj]
        nm == IF o.name # None
              THEN (IF name = None THEN o.name ELSE Some(name[1] \o "." \o o.name[1]))
              ELSE (IF name = None THEN Some("") ELSE name)
    IN  [objs |-> [st.objs EXCEPT ![obj].name = nm],
         _params |-> Append(st._params, obj)]

RECURSIVE _register_parameters(_, _, _)
RECURSIVE RegisterEach(_, _, _, _)

_register_parameters(st, obj, name) ==
    LET o == st.objs[obj]
    IN  IF o.kind = "Parameter" THEN RegisterParameter(st, obj, name)
        ELSE IF o.kind = "list" \/ o.kind \in Walked THEN RegisterEach(st, obj, 1, name)
        ELSE st

RegisterEach(st, obj, i, name) ==
    LET o == st.objs[obj]
    IN  IF i > Len(o.items) THEN st
        ELSE RegisterEach(_register_parameters(st, o.items[i], ChildName(o, name, i)),
                          obj, i + 1, name)

---------------------------------------------------------------------------
(* The model's attributes.                                                 *)

Absent == <<"absent", <<>>>>
NoneV == <<"None", <<>>>>
Tensor(shape) == <<"Tensor", shape>>
Ref(kind, id) == <<kind, <<id>>>>
Float(n) == <<"float", <<n>>>>
IntV(n) == <<"int", <<n>>>>
Bool(b) == <<"bool", <<IF b THEN 1 ELSE 0>>>>
Str(s) == <<"str", <<s>>>>
List(ids) == <<"list", ids>>

AttrNames ==
    {"kernel", "X", "y", "likelihood", "jitter", "mean", "name", "input_dims",
     "_params", "eye", "log_marginal_likelihood_constant", "variance_per_data",
     "is_sparse", "Z", "q_mu", "q_sqrt", "q_nu", "q_lambda", "extra"}

NoModel == [a \in AttrNames |-> Absent]

hasattr(d, name) == d[name] # Absent
isinstance(v, type) == v[1] = type

(* __setattr__ without the test of line 82.                                *)
__setattr__unguarded(d, name, val) ==
    [err |-> "", self |-> [d EXCEPT ![name] = val]]

(* Model.__setattr__, lines 81-84: the dictionary after self.name = val,   *)
(* or AttributeError with the dictionary as it was.                        *)
__setattr__(d, name, val) ==
    IF hasattr(d, name) /\ isinstance(d[name], "Parameter")
    THEN [err |-> "AttributeError", self |-> d]
    ELSE [err |-> "", self |-> [d EXCEPT ![name] = val]]

(* A run of assignments self.a = v, in order, as a constructor makes them: *)
(* it stops at the first one that raises.                                  *)
RECURSIVE Assign(_, _)
Assign(d, pairs) ==
    IF pairs = <<>> THEN [err |-> "", self |-> d]
    ELSE LET r == __setattr__(d, pairs[1][1], pairs[1][2])
         IN  IF r.err # "" THEN r ELSE Assign(r.self, Tail(pairs))

---------------------------------------------------------------------------
(* Input validation.                                                       *)

(* reshape(1,1) of a scalar and reshape(-1,1) of a vector, lines 91-94 and *)
(* 105-108; a tensor of rank 2 or more is left as it is.                   *)
Promote(shape) ==
    IF Len(shape) = 0 THEN <<1, 1>>
    ELSE IF Len(shape) = 1 THEN <<shape[1], 1>>
    ELSE shape

(* _check_input that omits the comparison of the row counts of line 110.   *)
_check_input_rows(X, y, input_dims) ==
    LET Xp  == Promote(X)
        bad == [err |-> "ValueError", X |-> <<>>, y |-> <<>>]
    IN  IF Len(X) > 2 THEN bad
        ELSE IF Xp[1] = 0 \/ Xp[2] = 0 THEN bad
        ELSE IF y # None
        THEN LET yp == Promote(y[1])
             IN  IF Len(y[1]) >= 2 /\ (Len(y[1]) # 2 \/ y[1][2] # 1) THEN bad
                 ELSE [err |-> "", X |-> Xp, y |-> yp]
        ELSE IF Xp[2] # input_dims THEN bad
        ELSE [err |-> "", X |-> Xp, y |-> <<>>]

(* _check_input that omits the comparison with input_dims of line 116.     *)
_check_input_columns(X, y, input_dims) ==
    LET Xp  == Promote(X)
        bad == [err |-> "ValueError", X |-> <<>>, y |-> <<>>]
    IN  IF Len(X) > 2 THEN bad
        ELSE IF Xp[1] = 0 \/ Xp[2] = 0 THEN bad
        ELSE IF y # None
        THEN LET yp == Promote(y[1])
             IN  IF Len(y[1]) >= 2 /\ (Len(y[1]) # 2 \/ y[1][2] # 1) THEN bad
                 ELSE IF Xp[1] # yp[1] THEN bad
                 ELSE [err |-> "", X |-> Xp, y |-> yp]
        ELSE [err |-> "", X |-> Xp, y |-> <<>>]

(* Model._check_input, lines 86-118.  y is None (X is a query, checked     *)
(* against input_dims) or Some(shape).                                     *)
_check_input(X, y, input_dims) ==
    LET Xp  == Promote(X)
        bad == [err |-> "ValueError", X |-> <<>>, y |-> <<>>]
    IN  IF Len(X) > 2 THEN bad
        ELSE IF Xp[1] = 0 \/ Xp[2] = 0 THEN bad
        ELSE IF y # None
        THEN LET yp == Promote(y[1])
             IN  IF Len(y[1]) >= 2 /\ (Len(y[1]) # 2 \/ y[1][2] # 1) THEN bad
                 ELSE IF Xp[1] # yp[1] THEN bad
                 ELSE [err |-> "", X |-> Xp, y |-> yp]
        ELSE IF Xp[2] # input_dims THEN bad
        ELSE [err |-> "", X |-> Xp, y |-> <<>>]


---------------------------------------------------------------------------
(* Matrices and the Cholesky primitive.  A matrix is a sequence of rows of *)
(* integers.  The jitter is a rational, jitter / JitterDen; the matrices   *)
(* the kernel hands out have entries that are multiples of                 *)
(* JitterDen * n, so that jitter * mean(diag(K)) is computed exactly.      *)

JitterDen == 4
JitterFloor32 == 2
JitterFloor64 == 1

Dim(K) == Len(K)
Trace(K) == LET RECURSIVE Sum(_)
                Sum(i) == IF i = 0 THEN 0 ELSE K[i][i] + Sum(i - 1)
            IN  Sum(Dim(K))

(* The matrix without row 1 and column j.                                  *)
Minor(K, j) ==
    [r \in 1..(Dim(K) - 1) |->
        [c \in 1..(Dim(K) - 1) |-> K[r + 1][IF c < j THEN c ELSE c + 1]]]

RECURSIVE Det(_)
Det(K) ==
    IF Dim(K) = 0 THEN 1
    ELSE IF Dim(K) = 1 THEN K[1][1]
    ELSE LET RECURSIVE Expand(_)
             Expand(j) ==
                 IF j = 0 THEN 0
                 ELSE (IF j % 2 = 1 THEN 1 ELSE -1) * K[1][j] * Det(Minor(K, j))
                      + Expand(j - 1)
         IN  Expand(Dim(K))

Leading(K, k) == [r \in 1..k |-> [c \in 1..k |-> K[r][c]]]

(* torch.linalg.cholesky succeeds on a symmetric matrix exactly when every *)
(* leading principal minor is positive.                                    *)
PositiveDefinite(K) == \A k \in 1..Dim(K) : Det(Leading(K, k)) > 0

(* K += (jitter * K.diagonal().mean()).repeat(n).diagflat(), line 224.     *)
AddJitter(K, jitter) ==
    LET term == (jitter * Trace(K)) \div (JitterDen * Dim(K))
    IN  [r \in 1..Dim(K) |->
            [c \in 1..Dim(K) |-> IF r = c THEN K[r][c] + term ELSE K[r][c]]]

ModelId == "model"

(* _cholesky with an exception that carries the matrix as it was passed.   *)
_cholesky_passed(K, add_jitter, jitter) ==
    LET Kj == IF add_jitter THEN AddJitter(K, jitter) ELSE K
    IN  IF PositiveDefinite(Kj)
        THEN [err |-> "", K |-> None, model |-> None, L |-> Some(Kj),
              steps |-> <<"torch.linalg.cholesky">>]
        ELSE [err |-> "CholeskyException", K |-> Some(K), model |-> Some(ModelId),
              L |-> None, steps |-> <<"torch.linalg.cholesky">>]

(* Model._cholesky, lines 222-235.  The result is either the factor        *)
(* (L = Some(the matrix factorized)) or the CholeskyException with its K   *)
(* and model fields; steps are the factorizations attempted.               *)
_cholesky(K, add_jitter, jitter) ==
    LET Kj == IF add_jitter THEN AddJitter(K, jitter) ELSE K
    IN  IF PositiveDefinite(Kj)
        THEN [err |-> "", K |-> None, model |-> None, L |-> Some(Kj),
              steps |-> <<"torch.linalg.cholesky">>]
        ELSE [err |-> "CholeskyException", K |-> Some(Kj), model |-> Some(ModelId),
              L |-> None, steps |-> <<"torch.linalg.cholesky">>]

(* The symmetric n x n matrices a kernel evaluation may produce: diagonal  *)
(* d and off-diagonal e; they include singular ones that the jitter        *)
(* repairs and indefinite ones that it does not, which degenerate inputs   *)
(* and rounding produce.                                                   *)
Matrix(n, d, e) == [r \in 1..n |-> [c \in 1..n |-> IF r = c THEN d ELSE e]]
Gram(n) ==
    {Matrix(n, d * JitterDen * n, e * JitterDen * n) :
        d \in 0..MaxEntry, e \in 0..(MaxEntry + 1)}

---------------------------------------------------------------------------
(* Construction.  Every constructor is an operator from the heap and the   *)
(* arguments to [err, objs, self]: the error raised ("" for none), the     *)
(* heap and the new model's attributes.                                    *)

(* GaussianLikelihood(variance): a likelihood whose scale is a Parameter.  *)
GaussianLikelihood(o, variance) ==
    LET scale == Len(o) + 1
    IN  [objs |-> o \o <<Parameter(variance, Some("scale"), TRUE, None),
                         NewObject("Likelihood", Some("GaussianLikelihood"), <<scale>>)>>,
         id |-> scale + 1]

(* Lines 61-64: the jitter is limited to the precision of config.dtype.    *)
LimitJitter(jitter, dtype) ==
    IF dtype = "float32" THEN Max(jitter, JitterFloor32)
    ELSE IF dtype = "float64" THEN Max(jitter, JitterFloor64)
    ELSE jitter

(* Model.__init__, lines 45-79.  d is the dictionary as the subclass has   *)
(* left it before calling super().__init__; mean is None or Some(object).  *)
(* A mean returns one value for each row of X, so that the comparison of   *)
(* lines 52-54 passes, and the likelihood accepts y (lines 56-58).         *)
Model__init__(o, d, kernel, X, y, likelihood, jitter, dtype, mean, name) ==
    LET chk  == _check_input(X, Some(y), 0)
        fail == [err |-> "ValueError", objs |-> o, self |-> d]
    IN  IF o[kernel].kind # "Kernel" THEN fail
        ELSE IF chk.err # "" THEN fail
        ELSE IF mean # None /\ o[mean[1]].kind # "Mean" THEN fail
        ELSE
          LET set == Assign(d, <<
                  <<"kernel", Ref("Kernel", kernel)>>,
                  <<"X", Tensor(chk.X)>>,
                  <<"y", Tensor(chk.y)>>,
                  <<"likelihood", Ref("Likelihood", likelihood)>>,
                  <<"jitter", Float(LimitJitter(jitter, dtype))>>,
                  <<"mean", IF mean = None THEN NoneV ELSE Ref("Mean", mean[1])>>,
                  <<"name", Str(name)>>,
                  <<"input_dims", IntV(chk.X[2])>>,
                  <<"_params", List(<<>>)>> >>)
              st0 == [objs |-> o, _params |-> <<>>]
              st1 == _register_parameters(st0, kernel, None)
              st2 == _register_parameters(st1, likelihood, None)
              st3 == IF mean # None /\ o[mean[1]].kind = "Mean"
                     THEN _register_parameters(st2, mean[1], None)
                     ELSE st2
          IN  IF set.err # "" THEN [err |-> set.err, objs |-> o, self |-> set.self]
              ELSE [err |-> "", objs |-> st3.objs,
                    self |-> [set.self EXCEPT !["_params"] = List(st3._params)]]

(* self._register_parameters(p) for a Parameter of the model's own, as the *)
(* variants call it after construction: the heap and the registry list.    *)
RegisterOwn(r, p) ==
    LET st == _register_parameters([objs |-> r.objs, _params |-> r.self["_params"][2]],
                                   p, None)
    IN  [r EXCEPT !.objs = st.objs, !.self["_params"] = List(st._params)]

(* init_inducing_points, lines 8-30, on shapes.  Z is <<"int", <<m>>>> or  *)
(* <<"Tensor", shape>>.                                                    *)
init_inducing_points(Z, X, output_dims) ==
    IF 1 < output_dims
    THEN (IF Z[1] = "int" THEN Tensor(<<output_dims * Z[2][1], X[2]>>) ELSE Z)
    ELSE IF Z[1] = "int" THEN Tensor(<<Z[2][1], X[2]>>)
    ELSE Z

(* The part the sparse variants share (lines 442-451, 646-655), on the     *)
(* outcome r of super().__init__: the inducing points are initialized,     *)
(* validated as a query, boxed in a Parameter named induction_points and   *)
(* registered.  Nothing of it runs when super().__init__ has raised.       *)
InducingPoints(r, Z, kernel) ==
    LET Zt  == init_inducing_points(Z, r.self["X"][2], r.objs[kernel].output_dims)
        chk == _check_input(Zt[2], None, r.self["input_dims"][2][1])
        zp  == Len(r.objs) + 1
        set == Assign(r.self, <<
                  <<"eye", Tensor(<<chk.X[1], chk.X[1]>>)>>,
                  <<"log_marginal_likelihood_constant", Float(r.self["X"][2][1])>>,
                  <<"Z", Ref("Parameter", zp)>> >>)
    IN  IF r.err # "" THEN r
        ELSE IF chk.err # "" THEN [r EXCEPT !.err = chk.err]
        ELSE IF set.err # "" THEN [r EXCEPT !.err = set.err, !.self = set.self]
        ELSE RegisterOwn([r EXCEPT !.self = set.self,
                                   !.objs = Append(r.objs, Parameter(chk.X, Some("induction_points"), TRUE, None))],
                         zp)

(* Exact.__init__, lines 343-356.  ExactVariance is the test of line 346,  *)
(* ExactRest is lines 355-356 and the trainable flag of lines 347 and 353, *)
(* on the outcome r of super().__init__.                                   *)
ExactVariance(X, variance) ==
    /\ Len(variance) = 2
    /\ (Len(X) # 1 \/ variance[1] = X[1])
    /\ variance[2] = 1

ExactRest(r, scale, per_data) ==
    LET n   == r.self["X"][2][1]
        set == Assign(r.self, <<
                  <<"eye", Tensor(<<n, n>>)>>,
                  <<"log_marginal_likelihood_constant", Float(n)>> >>)
    IN  IF r.err # "" THEN r
        ELSE [err |-> set.err,
              objs |-> [r.objs EXCEPT ![scale].trainable = ~per_data],
              self |-> set.self]

Exact__init__(o, kernel, X, y, variance, jitter, dtype, mean) ==
    LET per_data == ExactVariance(X, variance)
        d1       == Assign(NoModel, << <<"variance_per_data", Bool(FALSE)>> >>
                                    \o (IF per_data
                                        THEN << <<"variance_per_data", Bool(TRUE)>> >>
                                        ELSE << >>)).self
        v        == IF per_data THEN <<variance[1]>> ELSE variance
        lik      == GaussianLikelihood(o, v)
    IN  IF ~per_data /\ (1 < Len(variance)
                          \/ (Len(variance) = 1 /\ variance[1] # o[kernel].output_dims))
        THEN [err |-> "ValueError", objs |-> o, self |-> d1]
        ELSE ExactRest(Model__init__(lik.objs, d1, kernel, X, y, lik.id, jitter, dtype,
                                     mean, "Exact"),
                       Len(o) + 1, per_data)

(* Parameter.to_tensor(variance).squeeze(), line 436: dimensions of size 1 *)
(* are dropped.                                                            *)
Squeeze(shape) == SelectSeq(shape, LAMBDA n : n # 1)

(* Snelson.__init__, lines 435-451.                                        *)
Snelson__init__(o, kernel, X, y, Z, variance, jitter, dtype, mean) ==
    LET v   == Squeeze(variance)
        lik == GaussianLikelihood(o, v)
    IN  IF 1 < Len(v) \/ (Len(v) = 1 /\ v[1] # o[kernel].output_dims)
        THEN [err |-> "ValueError", objs |-> o, self |-> NoModel]
        ELSE InducingPoints(Model__init__(lik.objs, NoModel, kernel, X, y, lik.id, jitter,
                                          dtype, mean, "Snelson"),
                            Z, kernel)

(* Titsias.__init__, lines 641-655.                                        *)
Titsias__init__(o, kernel, X, y, Z, variance, jitter, dtype, mean) ==
    LET lik == GaussianLikelihood(o, variance)
    IN  InducingPoints(Model__init__(lik.objs, NoModel, kernel, X, y, lik.id, jitter, dtype,
                                     mean, "Titsias"),
                       Z, kernel)

(* OpperArchambeau.__init__, lines 538-549; OpperArchambeauRest is lines   *)
(* 541-549, on the outcome r of super().__init__.                          *)
OpperArchambeauRest(r, likelihood) ==
    LET n    == r.self["X"][2][1]
        nu   == Len(r.objs) + 1
        lam  == Len(r.objs) + 2
        set  == Assign(r.self, <<
                   <<"eye", Tensor(<<n, n>>)>>,
                   <<"q_nu", Ref("Parameter", nu)>>,
                   <<"q_lambda", Ref("Parameter", lam)>>,
                   <<"likelihood", Ref("Likelihood", likelihood)>> >>)
        made == [r EXCEPT !.self = set.self,
                          !.objs = r.objs \o <<Parameter(<<n, 1>>, Some("q_nu"), TRUE, None),
                                               Parameter(<<n, 1>>, Some("q_lambda"), TRUE, None)>>]
    IN  IF r.err # "" THEN r
        ELSE IF set.err # "" THEN [r EXCEPT !.err = set.err, !.self = set.self]
        ELSE RegisterOwn(RegisterOwn(made, nu), lam)

OpperArchambeau__init__(o, kernel, X, y, likelihood, jitter, dtype, mean) ==
    OpperArchambeauRest(Model__init__(o, NoModel, kernel, X, y, likelihood, jitter, dtype,
                                      mean, "OpperArchambeau"),
                        likelihood)

(* SparseHensman.__init__, lines 751-777.  Z is None (not sparse: Hensman) *)
(* or Some(<<"int", <<m>>>>) or Some(<<"Tensor", shape>>).                 *)
(* SparseHensmanRest is lines 758-777, on the outcome r of                 *)
(* super().__init__.                                                       *)
SparseHensmanRest(r, Z, output_dims) ==
    LET Xs    == r.self["X"][2]
        Zt    == init_inducing_points(Z[1], Xs, output_dims)
        chk   == _check_input(Zt[2], None, r.self["input_dims"][2][1])
        n     == IF Z # None THEN chk.X[1] ELSE Xs[1]
        mu    == Len(r.objs) + 1
        sqrt  == Len(r.objs) + 2
        zp    == Len(r.objs) + 3
        set   == Assign(r.self, <<
                    <<"is_sparse", Bool(Z # None)>>,
                    <<"eye", Tensor(<<n, n>>)>>,
                    <<"log_marginal_likelihood_constant", Float(Xs[1])>>,
                    <<"q_mu", Ref("Parameter", mu)>>,
                    <<"q_sqrt", Ref("Parameter", sqrt)>>,
                    <<"Z", Ref("Parameter", zp)>> >>)
        made  == [r EXCEPT !.self = set.self,
                           !.objs = r.objs \o <<
                               Parameter(<<n, 1>>, Some("q_mu"), TRUE, None),
                               Parameter(<<n, n>>, Some("q_sqrt"), TRUE, None),
                               IF Z # None
                               THEN Parameter(chk.X, Some("induction_points"), TRUE, None)
                               ELSE Parameter(Xs, None, FALSE, None)>>]
        reg   == RegisterOwn(RegisterOwn(made, mu), sqrt)
    IN  IF r.err # "" THEN r
        ELSE IF Z # None /\ chk.err # ""
        THEN [r EXCEPT !.err = chk.err,
                       !.self = Assign(r.self, << <<"is_sparse", Bool(TRUE)>> >>).self]
        ELSE IF set.err # "" THEN [r EXCEPT !.err = set.err, !.self = set.self]
        ELSE IF Z # None THEN RegisterOwn(reg, zp)
        ELSE reg

SparseHensman__init__(o, kernel, X, y, Z, likelihood, jitter, dtype, mean, name) ==
    SparseHensmanRest(Model__init__(o, NoModel, kernel, X, y, likelihood, jitter, dtype,
                                    mean, name),
                      Z, o[kernel].output_dims)

(* Hensman.__init__, lines 862-864.                                        *)
Hensman__init__(o, kernel, X, y, likelihood, jitter, dtype, mean) ==
    SparseHensman__init__(o, kernel, X, y, None, likelihood, jitter, dtype, mean, "Hensman")

---------------------------------------------------------------------------
(* The model's operations, as operators from the model (its class c, its   *)
(* attributes d, the heap o) and the arguments to the outcome              *)
(*   [err, K, model, val, steps]                                           *)
(* err is the exception raised ("" for none), K and model are the fields   *)
(* of a CholeskyException, val is the shapes of the values returned and    *)
(* steps are the calls made, in order.                                     *)

Outcome(err, val, made) ==
    [err |-> err, K |-> None, model |-> None, val |-> val, steps |-> made]

Rows(d) == d["X"][2][1]
InducingRows(d, o) == o[d["Z"][2][1]].shape[1]
JitterOf(d) == d["jitter"][2][1]

(* The matrices an evaluation factorizes with self._cholesky, in order, as *)
(* <<size, add_jitter>>: Exact (lines 364, 394), Snelson (463 and 467, 491 *)
(* and 495), OpperArchambeau (561, 601), Titsias (667 and 670, 699 and     *)
(* 701), SparseHensman and Hensman (797 and 818).                          *)
Factorizations(c, d, o) ==
    IF c = "Exact" THEN << <<Rows(d), TRUE>> >>
    ELSE IF c = "OpperArchambeau" THEN << <<Rows(d), FALSE>> >>
    ELSE IF c \in {"Snelson", "Titsias"}
    THEN << <<InducingRows(d, o), TRUE>>, <<InducingRows(d, o), FALSE>> >>
    ELSE << <<InducingRows(d, o), TRUE>> >>

(* The kernel matrices are computed and factorized one after the other;    *)
(* the first CholeskyException ends the evaluation.  Ks are the matrices   *)
(* the kernel evaluations produce.                                         *)
RECURSIVE Factorize(_, _, _, _)
Factorize(Ks, plan, jitter, i) ==
    IF i > Len(plan) THEN Outcome("", <<>>, <<>>)
    ELSE LET c    == _cholesky(Ks[i], plan[i][2], jitter)
             here == <<"kernel", "_cholesky">> \o c.steps
             rest == Factorize(Ks, plan, jitter, i + 1)
         IN  IF c.err # ""
             THEN [err |-> c.err, K |-> c.K, model |-> c.model, val |-> <<>>, steps |-> here]
             ELSE [rest EXCEPT !.steps = here \o rest.steps]

(* log_marginal_likelihood() of the variants (lines 358-374, 453-476,      *)
(* 551-592, 657-685, 787-812): a scalar, or the CholeskyException.         *)
log_marginal_likelihood(c, d, o, Ks) ==
    LET f == Factorize(Ks, Factorizations(c, d, o), JitterOf(d), 1)
    IN  IF f.err # "" THEN f ELSE [f EXCEPT !.val = << <<>> >>]

(* A predict that refuses nothing for the variances.                      *)
PerDataRefused_never(c, d, predict_y) == FALSE

(* The test of lines 377-378 in Exact.predict: observations cannot be      *)
(* predicted by a model that was given a variance for each data point.     *)
PerDataRefused(c, d, predict_y) ==
    c = "Exact" /\ d["variance_per_data"] = Bool(TRUE) /\ predict_y

(* predict(Xs, full, tensor, predict_y) of the variants (lines 376-417,    *)
(* 478-521, 594-622, 687-731, 832-845): the shapes of the mean and of the  *)
(* variance.  Snelson's full branch reads the undefined names w and u      *)
(* (line 507).                                                             *)
predict(c, d, o, Xs, full, predict_y, Ks) ==
    LET chk == _check_input(Xs, None, d["input_dims"][2][1])
        f   == Factorize(Ks, Factorizations(c, d, o), JitterOf(d), 1)
        S   == chk.X[1]
        pre == <<"_check_input">>
    IN  IF PerDataRefused(c, d, predict_y)
        THEN Outcome("ValueError", <<>>, <<>>)
        ELSE IF chk.err # "" THEN Outcome(chk.err, <<>>, pre)
        ELSE IF f.err # "" THEN [f EXCEPT !.steps = pre \o f.steps]
        ELSE IF c = "Snelson" /\ full
        THEN Outcome("NameError", <<>>, pre \o f.steps \o <<"kernel">>)
        ELSE Outcome("", << <<S, 1>>, IF full THEN <<S, S>> ELSE <<S, 1>> >>,
                     pre \o f.steps \o <<"kernel">>)

(* The end of predict, lines 414-417: the mean and the variance are        *)
(* converted to NumPy arrays unless tensor is set.                         *)
Converted(p, tensor) ==
    IF p.err = "" /\ ~tensor THEN [p EXCEPT !.steps = p.steps \o <<"numpy">>] ELSE p

(* Model.sample(Z, n, predict_y), lines 296-326.  n is None or Some(int);  *)
(* var is the covariance predict returned.  The factorization of line 321  *)
(* is torch.linalg.cholesky itself, which raises torch's RuntimeError.     *)
(* SampleRest is lines 314-326, on the outcome p of self.predict.          *)
SampleRest(p, jitter, Z, n, var) ==
    LET S   == IF n = None THEN 1 ELSE n[1]
        M   == p.val[1][1]
        st  == p.steps \o <<"torch.linalg.cholesky">>
        out == IF n = None THEN Squeeze(<<M, S>>) ELSE <<M, S>>
    IN  IF p.err # "" THEN p
        ELSE IF Len(Z) = 0 THEN Outcome("IndexError", <<>>, p.steps)
        ELSE IF ~PositiveDefinite(AddJitter(var, jitter))
        THEN Outcome("RuntimeError", <<>>, st)
        ELSE Outcome("", <<out>>, st)

sample(c, d, o, Z, n, predict_y, Ks, var) ==
    SampleRest(predict(c, d, o, Z, TRUE, predict_y, Ks), JitterOf(d), Z, n, var)

---------------------------------------------------------------------------
(* Training.  The gradient of a Parameter is the .grad of its              *)
(* unconstrained tensor: None, or Some(integer).                           *)

(* A zero_grad that leaves every gradient as it is.                        *)
zero_grad_kept(o, params) == o

(* Model.zero_grad, lines 143-151: the gradients that exist are zeroed.    *)
zero_grad(o, params) ==
    [i \in 1..Len(o) |->
        IF i \in Range(params) /\ o[i].grad # None
        THEN [o[i] EXCEPT !.grad = Some(0)]
        ELSE o[i]]

(* loss.backward(), line 268: the reverse pass adds the contribution g of  *)
(* this loss to the gradient of every trainable Parameter the loss was     *)
(* computed from.                                                          *)
backward(o, leaves, g) ==
    [i \in 1..Len(o) |->
        IF i \in leaves /\ o[i].trainable
        THEN [o[i] EXCEPT !.grad = Some((IF o[i].grad = None THEN 0 ELSE o[i].grad[1]) + g)]
        ELSE o[i]]

(* The Parameters a forward evaluation reads: the registered ones and the  *)
(* ones the model holds as attributes.                                     *)
Leaves(d) ==
    Range(d["_params"][2])
        \cup {d[a][2][1] : a \in {b \in AttrNames : isinstance(d[b], "Parameter")}}

(* parameters() that yields for every registered Parameter.                *)
parameters_all(o, params) == params

(* Model.parameters, lines 153-162, iterated to its end: the unconstrained *)
(* tensors, each known by its Parameter.                                   *)
parameters(o, params) == SelectSeq(params, LAMBDA p : o[p].trainable)

(* Model.get_parameters, lines 164-171.                                    *)
get_parameters(d) == d["_params"][2]

(* Parameter.log_prior(): the log-density of the prior at the Parameter's  *)
(* value, zero when it has no prior.                                       *)
Parameter_log_prior(p) == IF p.prior = None THEN 0 ELSE p.prior[1]

(* Model.log_prior, lines 248-257.                                         *)
RECURSIVE log_prior(_, _)
log_prior(o, params) ==
    IF params = <<>> THEN 0
    ELSE Parameter_log_prior(o[Head(params)]) + log_prior(o, Tail(params))

(* Model.loss, lines 259-269.  g is the contribution of this evaluation to *)
(* the gradients.  The outcome has the heap as the call leaves it.         *)
(* LossRest is lines 267-269 on the outcome f of log_marginal_likelihood() *)
(* and the heap z that zero_grad left.                                     *)
LossRest(f, d, z, g) ==
    LET fwd == <<"zero_grad", "log_marginal_likelihood">> \o f.steps
    IN  IF f.err # ""
        THEN [err |-> f.err, K |-> f.K, model |-> f.model, val |-> <<>>,
              steps |-> fwd, objs |-> z]
        ELSE [err |-> "", K |-> None, model |-> None, val |-> << <<>> >>,
              steps |-> fwd \o <<"log_prior", "backward">>,
              objs |-> backward(z, Leaves(d), g)]

loss(c, d, o, Ks, g) ==
    LossRest(log_marginal_likelihood(c, d, zero_grad(o, get_parameters(d)), Ks),
             d, zero_grad(o, get_parameters(d)), g)

---------------------------------------------------------------------------
(* The inputs of the calls.                                                *)

(* Tensor shapes of rank 0 to 3; a rank above 2 is only ever rejected, so  *)
(* the rank-3 shapes are the (n,1,1).                                      *)
Shapes == {s \in SeqsUpTo(0..MaxDim, 3) : Len(s) = 3 => (s[2] = 1 /\ s[3] = 1)}

(* The objects the caller has built before it constructs a model: a kernel *)
(* K with two Parameters, a mean M and a likelihood L with one each, and   *)
(* an object that derives from none of Kernel, Mean and Likelihood.        *)
InitObjs ==
    << Parameter(<<>>, Some("a"), TRUE, None),
       Parameter(<<>>, Some("b"), TRUE, None),
       NewObject("Kernel", Some("K"), <<1, 2>>),
       Parameter(<<>>, Some("c"), TRUE, None),
       NewObject("Mean", Some("M"), <<4>>),
       Parameter(<<>>, Some("scale"), TRUE, None),
       NewObject("Likelihood", Some("L"), <<6>>),
       NewObject("other", Some("K"), <<>>) >>

TheKernel == 3
TheMean == 5
TheLikelihood == 7
NoKernel == 8

Kernels == {TheKernel, NoKernel}
Means == {None, Some(TheMean)}
(* <<jitter, config.dtype>>                                                *)
Jitters == {<<0, "float64">>, <<JitterFloor32 + 1, "float32">>}
VarianceShapes == {s \in Shapes : Len(s) <= 2 /\ \A i \in 1..Len(s) : s[i] >= 1}
InducingInputs == {IntV(m) : m \in 0..MaxDim} \cup {Tensor(<<m, 1>>) : m \in 1..MaxDim}
SampleCounts == {None} \cup {Some(k) : k \in 1..MaxDim}

(* The matrices the kernel evaluations of a plan may produce, one for each *)
(* factorization that is reached: none follows one that fails.             *)
RECURSIVE KernelMatrices(_, _)
KernelMatrices(plan, jitter) ==
    IF plan = <<>> THEN {<<>>}
    ELSE UNION {IF _cholesky(K, plan[1][2], jitter).err # ""
                THEN {<<K>>}
                ELSE {<<K>> \o rest : rest \in KernelMatrices(Tail(plan), jitter)}
                : K \in Gram(plan[1][1])}

---------------------------------------------------------------------------
(* The actions.  A call takes the model from "ready" to "returned", where  *)
(* call, ret and steps show the call, its outcome and the calls it made;   *)
(* Resume is the caller going on.                                          *)

Returns(op, args, r) ==
    /\ call' = [op |-> op, args |-> args]
    /\ ret' = [err |-> r.err, K |-> r.K, model |-> r.model, val |-> r.val]
    /\ steps' = r.steps

(* A constructor call that ended as r.  When it raised there is no model;  *)
(* the objects it created are garbage, the objects of the caller stay as   *)
(* it left them.                                                           *)
Construct(variant, args, r) ==
    /\ Returns("__init__", [cls |-> variant] @@ args, Outcome(r.err, <<>>, <<>>))
    /\ IF r.err = ""
       THEN pc' = "returned" /\ cls' = variant /\ self' = r.self /\ objs' = r.objs
       ELSE /\ pc' = "failed" /\ cls' = "" /\ self' = NoModel
            /\ objs' = SubSeq(r.objs, 1, Len(objs))

Args(kernel, X, y, Z, variance, jit, mean) ==
    [kernel |-> kernel, X |-> X, y |-> y, Z |-> Z, variance |-> variance,
     jitter |-> jit, mean |-> mean]

ConstructExact ==
    /\ pc = "new"
    /\ \E kernel \in Kernels, X \in Shapes, y \in Shapes, variance \in VarianceShapes,
          jit \in Jitters, mean \in Means :
           Construct("Exact", Args(kernel, X, y, None, variance, jit, mean),
                     Exact__init__(objs, kernel, X, y, variance, jit[1], jit[2], mean))

ConstructSnelson ==
    /\ pc = "new"
    /\ \E kernel \in Kernels, X \in Shapes, y \in Shapes, Z \in InducingInputs,
          variance \in {<<>>, <<1>>, <<1, 1>>, <<MaxDim>>}, jit \in Jitters, mean \in Means :
           Construct("Snelson", Args(kernel, X, y, Some(Z), variance, jit, mean),
                     Snelson__init__(objs, kernel, X, y, Z, variance, jit[1], jit[2], mean))

ConstructTitsias ==
    /\ pc = "new"
    /\ \E kernel \in Kernels, X \in Shapes, y \in Shapes, Z \in InducingInputs,
          jit \in Jitters, mean \in Means :
           Construct("Titsias", Args(kernel, X, y, Some(Z), <<>>, jit, mean),
                     Titsias__init__(objs, kernel, X, y, Z, <<>>, jit[1], jit[2], mean))

ConstructOpperArchambeau ==
    /\ pc = "new"
    /\ \E kernel \in Kernels, X \in Shapes, y \in Shapes, jit \in Jitters, mean \in Means :
           Construct("OpperArchambeau", Args(kernel, X, y, None, <<>>, jit, mean),
                     OpperArchambeau__init__(objs, kernel, X, y, TheLikelihood,
                                             jit[1], jit[2], mean))

ConstructSparseHensman ==
    /\ pc = "new"
    /\ \E kernel \in Kernels, X \in Shapes, y \in Shapes,
          Z \in {None} \cup {Some(z) : z \in InducingInputs}, jit \in Jitters, mean \in Means :
           Construct("SparseHensman", Args(kernel, X, y, Z, <<>>, jit, mean),
                     SparseHensman__init__(objs, kernel, X, y, Z, TheLikelihood,
                                           jit[1], jit[2], mean, "SparseHensman"))

ConstructHensman ==
    /\ pc = "new"
    /\ \E kernel \in Kernels, X \in Shapes, y \in Shapes, jit \in Jitters, mean \in Means :
           Construct("Hensman", Args(kernel, X, y, None, <<>>, jit, mean),
                     Hensman__init__(objs, kernel, X, y, TheLikelihood, jit[1], jit[2], mean))

(* The caller goes on after a call has returned or raised.                 *)
Resume ==
    /\ pc = "returned"
    /\ pc' = "ready"
    /\ call' = [op |-> "", args |-> <<>>]
    /\ ret' = [err |-> "", K |-> None, model |-> None, val |-> <<>>]
    /\ steps' = <<>>
    /\ UNCHANGED <<objs, self, cls>>

(* Whether predict(Xs, predict_y=predict_y) gets as far as evaluating the  *)
(* kernel.                                                                 *)
Evaluates(c, d, Xs, predict_y) ==
    /\ ~PerDataRefused(c, d, predict_y)
    /\ _check_input(Xs, None, d["input_dims"][2][1]).err = ""

Evaluated(c, d, o, Xs, predict_y) ==
    IF Evaluates(c, d, Xs, predict_y)
    THEN KernelMatrices(Factorizations(c, d, o), JitterOf(d))
    ELSE {<<>>}

(* model.predict(Xs, full=full, tensor=tensor, predict_y=predict_y)        *)
Predict ==
    /\ pc = "ready"
    /\ \E Xs \in Shapes, full \in BOOLEAN, tensor \in BOOLEAN, predict_y \in BOOLEAN :
          \E Ks \in Evaluated(cls, self, objs, Xs, predict_y) :
              Returns("predict",
                      [Xs |-> Xs, full |-> full, tensor |-> tensor, predict_y |-> predict_y],
                      Converted(predict(cls, self, objs, Xs, full, predict_y, Ks), tensor))
    /\ pc' = "returned"
    /\ UNCHANGED <<objs, self, cls>>

(* The covariances predict may have returned to sample: a matrix of the    *)
(* size of the query when predict returned, nothing when it raised.        *)
Covariances(p) == IF p.err = "" THEN Gram(p.val[1][1]) ELSE {<<>>}

(* model.sample(Z, n, predict_y)                                           *)
Sample ==
    /\ pc = "ready"
    /\ \E Z \in Shapes, n \in SampleCounts, predict_y \in BOOLEAN :
          \E Ks \in Evaluated(cls, self, objs, Z, predict_y) :
              \E var \in Covariances(predict(cls, self, objs, Z, TRUE, predict_y, Ks)) :
                  Returns("sample", [Z |-> Z, n |-> n, predict_y |-> predict_y],
                          sample(cls, self, objs, Z, n, predict_y, Ks, var))
    /\ pc' = "returned"
    /\ UNCHANGED <<objs, self, cls>>

(* model.log_marginal_likelihood()                                         *)
LogMarginalLikelihood ==
    /\ pc = "ready"
    /\ \E Ks \in KernelMatrices(Factorizations(cls, self, objs), JitterOf(self)) :
          Returns("log_marginal_likelihood", <<>>,
                  log_marginal_likelihood(cls, self, objs, Ks))
    /\ pc' = "returned"
    /\ UNCHANGED <<objs, self, cls>>

(* model._cholesky(K, add_jitter)                                          *)
Cholesky ==
    /\ pc = "ready"
    /\ \E n \in 1..MaxDim, add_jitter \in BOOLEAN :
          \E K \in Gram(n) :
             LET c == _cholesky(K, add_jitter, JitterOf(self))
             IN  Returns("_cholesky", [K |-> K, add_jitter |-> add_jitter],
                         [err |-> c.err, K |-> c.K, model |-> c.model,
                          val |-> IF c.L = None THEN <<>> ELSE <<c.L[1]>>,
                          steps |-> c.steps])
    /\ pc' = "returned"
    /\ UNCHANGED <<objs, self, cls>>

(* model.name = val by the caller, for some names and values: a tensor or  *)
(* a Parameter of the caller's.                                            *)
AssignNames == {"X", "Z", "q_mu", "extra"}
AssignValues == {Tensor(<<1, 1>>), Ref("Parameter", 1)}

SetAttr ==
    /\ pc = "ready"
    /\ \E name \in AssignNames, val \in AssignValues :
          /\ Returns("__setattr__", [name |-> name, val |-> val],
                     Outcome(__setattr__(self, name, val).err, <<>>, <<>>))
          /\ self' = __setattr__(self, name, val).self
    /\ pc' = "returned"
    /\ UNCHANGED <<objs, cls>>

(* model.loss()                                                            *)
Loss ==
    /\ pc = "ready"
    /\ \E g \in 1..MaxGrad :
          \E Ks \in KernelMatrices(Factorizations(cls, self, objs), JitterOf(self)) :
              /\ Returns("loss", [contribution |-> g], loss(cls, self, objs, Ks, g))
              /\ objs' = loss(cls, self, objs, Ks, g).objs
    /\ pc' = "returned"
    /\ UNCHANGED <<self, cls>>

(* list(model.parameters())                                                *)
Parameters ==
    /\ pc = "ready"
    /\ Returns("parameters", <<>>,
               Outcome("", parameters(objs, get_parameters(self)), <<>>))
    /\ pc' = "returned"
    /\ UNCHANGED <<objs, self, cls>>

(* model.get_parameters()                                                  *)
GetParameters ==
    /\ pc = "ready"
    /\ Returns("get_parameters", <<>>, Outcome("", get_parameters(self), <<>>))
    /\ pc' = "returned"
    /\ UNCHANGED <<objs, self, cls>>

(* model.log_prior()                                                       *)
LogPrior ==
    /\ pc = "ready"
    /\ Returns("log_prior", <<>>,
               Outcome("", <<log_prior(objs, get_parameters(self))>>, <<>>))
    /\ pc' = "returned"
    /\ UNCHANGED <<objs, self, cls>>

(* The caller changes the trainable flag or the prior of one of the        *)
(* kernel's Parameters (p.trainable = b, p.prior = ...); a prior is known  *)
(* by its log-density at the Parameter's value.                            *)
Tunable == Range(InitObjs[TheKernel].items)

SetTrainable ==
    /\ pc = "ready"
    /\ \E p \in Tunable, b \in BOOLEAN :
          /\ objs[p].trainable # b
          /\ objs' = [objs EXCEPT ![p].trainable = b]
    /\ UNCHANGED <<self, cls, pc, call, ret, steps>>

SetPrior ==
    /\ pc = "ready"
    /\ \E p \in Tunable, v \in {None} \cup {Some(k) : k \in 1..MaxPrior} :
          /\ objs[p].prior # v
          /\ objs' = [objs EXCEPT ![p].prior = v]
    /\ UNCHANGED <<self, cls, pc, call, ret, steps>>

(* The caller builds the objects a model is made of: Parameters, named or  *)
(* not, and kernels, means and lists that hold objects built before, the   *)
(* same one twice if the caller so wishes.                                 *)
ParameterNames == {None, Some("a")}
Containers == {<<"Kernel", Some("K")>>, <<"Mean", Some("M")>>, <<"list", None>>}

NewParameter ==
    /\ pc = "new"
    /\ Len(objs) < MaxObjs
    /\ \E name \in ParameterNames :
          objs' = Append(objs, Parameter(<<>>, name, TRUE, None))
    /\ UNCHANGED <<self, cls, pc, call, ret, steps>>

NewContainer ==
    /\ pc = "new"
    /\ Len(objs) < MaxObjs
    /\ \E c \in Containers, items \in SeqsUpTo(1..Len(objs), MaxItems) :
          objs' = Append(objs, NewObject(c[1], c[2], items))
    /\ UNCHANGED <<self, cls, pc, call, ret, steps>>

(* Exact(kernel, X, y, mean=mean) over the objects built.                  *)
ConstructOver ==
    /\ pc = "new"
    /\ \E kernel \in {i \in 1..Len(objs) : objs[i].kind = "Kernel"},
          mean \in {None} \cup {Some(i) : i \in {j \in 1..Len(objs) : objs[j].kind = "Mean"}} :
           Construct("Exact", Args(kernel, <<1>>, <<1>>, None, <<>>, <<0, "float64">>, mean),
                     Exact__init__(objs, kernel, <<1>>, <<1>>, <<>>, 0, "float64", mean))

NoCall == [op |-> "", args |-> <<>>]
NoReturn == [err |-> "", K |-> None, model |-> None, val |-> <<>>]

Init ==
    /\ objs = InitObjs
    /\ self = NoModel
    /\ cls = ""
    /\ pc = "new"
    /\ call = NoCall
    /\ ret = NoReturn
    /\ steps = <<>>

(* Construction alone.                                                     *)
NextConstruct ==
    \/ ConstructExact
    \/ ConstructSnelson
    \/ ConstructTitsias
    \/ ConstructOpperArchambeau
    \/ ConstructSparseHensman
    \/ ConstructHensman

SpecConstruct == Init /\ [][NextConstruct]_vars

(* Construction followed by calls of the Cholesky primitive.               *)
NextCholesky ==
    \/ NextConstruct
    \/ Resume
    \/ Cholesky

SpecCholesky == Init /\ [][NextCholesky]_vars

(* Construction followed by predictions.                                   *)
NextPredict ==
    \/ NextConstruct
    \/ Resume
    \/ Predict

SpecPredict == Init /\ [][NextPredict]_vars

(* Construction followed by every evaluation.                              *)
Next ==
    \/ NextConstruct
    \/ Resume
    \/ Predict
    \/ Sample
    \/ LogMarginalLikelihood
    \/ Cholesky

Spec == Init /\ [][Next]_vars

(* Construction followed by attribute assignments.                         *)
NextAttr ==
    \/ NextConstruct
    \/ Resume
    \/ SetAttr

SpecAttr == Init /\ [][NextAttr]_vars

(* Construction over any objects of the caller.                           *)
InitRegister ==
    /\ objs = <<>>
    /\ self = NoModel
    /\ cls = ""
    /\ pc = "new"
    /\ call = NoCall
    /\ ret = NoReturn
    /\ steps = <<>>

NextRegister ==
    \/ NewParameter
    \/ NewContainer
    \/ ConstructOver

SpecRegister == InitRegister /\ [][NextRegister]_vars

(* Training of a constructed model.  The models are the ones the           *)
(* constructors make of one data point: every variant, and Exact with a    *)
(* variance per data point.                                                *)
TrainModels ==
    {[cls |-> "Exact",
      r |-> Exact__init__(InitObjs, TheKernel, <<1>>, <<1>>, v, 0, "float64", Some(TheMean))] :
        v \in {<<>>, <<1, 1>>}}
    \cup {[cls |-> "Snelson",
           r |-> Snelson__init__(InitObjs, TheKernel, <<1>>, <<1>>, IntV(1), <<>>, 0,
                                 "float64", None)],
          [cls |-> "Titsias",
           r |-> Titsias__init__(InitObjs, TheKernel, <<1>>, <<1>>, IntV(1), <<>>, 0,
                                 "float64", None)],
          [cls |-> "OpperArchambeau",
           r |-> OpperArchambeau__init__(InitObjs, TheKernel, <<1>>, <<1>>, TheLikelihood, 0,
                                         "float64", None)],
          [cls |-> "SparseHensman",
           r |-> SparseHensman__init__(InitObjs, TheKernel, <<1>>, <<1>>, Some(IntV(1)),
                                       TheLikelihood, 0, "float64", None, "SparseHensman")],
          [cls |-> "Hensman",
           r |-> Hensman__init__(InitObjs, TheKernel, <<1>>, <<1>>, TheLikelihood, 0,
                                 "float64", None)]}

InitTrain ==
    /\ \E m \in TrainModels :
          /\ m.r.err = ""
          /\ objs = m.r.objs
          /\ self = m.r.self
          /\ cls = m.cls
    /\ pc = "ready"
    /\ call = NoCall
    /\ ret = NoReturn
    /\ steps = <<>>

NextTrain ==
    \/ Loss
    \/ Parameters
    \/ GetParameters
    \/ LogPrior
    \/ SetTrainable
    \/ SetPrior
    \/ Resume

SpecTrain == InitTrain /\ [][NextTrain]_vars

---------------------------------------------------------------------------
(* The properties.                                                         *)

(* C1: once an attribute of the model holds a Parameter it holds that      *)
(* Parameter for ever, and an assignment to it, of any value, raises       *)
(* AttributeError and leaves the attributes, the registry list and the     *)
(* registered Parameters as they were.                                     *)
C1_ParameterReadOnly ==
    [][\A name \in AttrNames :
          isinstance(self[name], "Parameter") =>
              /\ self'[name] = self[name]
              /\ (pc = "ready" /\ call'.op = "__setattr__" /\ call'.args.name = name) =>
                    /\ ret'.err = "AttributeError"
                    /\ self' = self
                    /\ objs' = objs]_vars

(* An assignment of another Parameter to an attribute that holds a         *)
(* Parameter since the construction.                                       *)
C1_Witness ==
    /\ call.op = "__setattr__"
    /\ call.args.name = "q_mu"
    /\ isinstance(call.args.val, "Parameter")
    /\ isinstance(self["q_mu"], "Parameter")
    /\ self["q_mu"] # call.args.val
    /\ ret.err = "AttributeError"

(* The registry list of the model and the number of times a call occurs   *)
(* among the calls of the last operation.                                  *)
Registered == self["_params"][2]
Times(step) == Cardinality({i \in 1..Len(steps) : steps[i] = step})

(* C2: a loss() that returns has called zero_grad first, then              *)
(* log_marginal_likelihood, then log_prior, then backward, once each, and  *)
(* leaves in every registered Parameter the gradient of this call alone:   *)
(* its contribution when the Parameter is trainable, none or zero when not;*)
(* a loss() that raises has made no backward pass.                         *)
C2_LossGradients ==
    call.op = "loss" =>
        /\ steps[1] = "zero_grad"
        /\ steps[2] = "log_marginal_likelihood"
        /\ Times("zero_grad") = 1
        /\ IF ret.err = ""
           THEN /\ steps[Len(steps) - 1] = "log_prior"
                /\ steps[Len(steps)] = "backward"
                /\ Times("backward") = 1
                /\ \A i \in 1..Len(Registered) :
                      LET q == objs[Registered[i]]
                      IN  IF q.trainable
                          THEN q.grad = Some(call.args.contribution)
                          ELSE q.grad \in {None, Some(0)}
           ELSE /\ Times("backward") = 0
                /\ \A i \in 1..Len(Registered) :
                      objs[Registered[i]].grad \in {None, Some(0)}

(* A loss() after an earlier one: a Parameter that is no longer trainable  *)
(* has its old gradient zeroed, a trainable one has the new contribution.  *)
C2_Witness ==
    /\ call.op = "loss"
    /\ ret.err = ""
    /\ call.args.contribution = MaxGrad
    /\ \E i, j \in 1..Len(Registered) :
          /\ ~objs[Registered[i]].trainable
          /\ objs[Registered[i]].grad = Some(0)
          /\ objs[Registered[j]].grad = Some(MaxGrad)

(* The matrix a call model._cholesky(K, add_jitter) factorizes.            *)
Factorized(K, add_jitter) ==
    IF add_jitter THEN AddJitter(K, JitterOf(self)) ELSE K

(* C3: _cholesky(K, add_jitter) attempts the factorization exactly once;   *)
(* when the matrix it factorizes (K, with the jitter term when add_jitter) *)
(* is not positive definite it raises CholeskyException whose K is that    *)
(* matrix and whose model is the calling model, and it returns no factor;  *)
(* otherwise it returns the factor of that matrix.                         *)
C3_CholeskyOnce ==
    call.op = "_cholesky" =>
        LET Kj == Factorized(call.args.K, call.args.add_jitter)
        IN  /\ steps = <<"torch.linalg.cholesky">>
            /\ IF PositiveDefinite(Kj)
               THEN ret.err = "" /\ ret.val = <<Kj>>
               ELSE /\ ret.err = "CholeskyException"
                    /\ ret.K = Some(Kj)
                    /\ ret.model = Some(ModelId)
                    /\ ret.val = <<>>

(* A failing _cholesky whose jitter term changed the matrix.               *)
C3_Witness ==
    /\ call.op = "_cholesky"
    /\ call.args.add_jitter
    /\ ret.err = "CholeskyException"
    /\ ret.K # Some(call.args.K)
    /\ steps = <<"torch.linalg.cholesky">>

(* Whether the last operation ended in a factorization that failed.        *)
FactorizationFailed ==
    /\ call.op \in {"log_marginal_likelihood", "predict", "sample"}
    /\ ret.err # ""
    /\ steps # <<>>
    /\ steps[Len(steps)] = "torch.linalg.cholesky"

(* C4: in log_marginal_likelihood, predict and sample of every variant, a  *)
(* factorization that fails reaches the caller as CholeskyException with   *)
(* the failing matrix and the model, never as another error.               *)
C4_FailureIsCholeskyException ==
    FactorizationFailed =>
        /\ ret.err = "CholeskyException"
        /\ ret.K # None
        /\ ret.model = Some(ModelId)

(* The number of rows and of columns of a tensor once a scalar or a vector *)
(* is taken as a column.                                                   *)
RowsOf(shape) == IF Len(shape) = 0 THEN 1 ELSE shape[1]
ColumnsOf(shape) == IF Len(shape) < 2 THEN 1 ELSE shape[2]

(* Training data the claim C5 names as rejected: X of rank above 2, empty  *)
(* X, y with more than one column, different numbers of rows.              *)
BadTraining(X, y) ==
    \/ Len(X) > 2
    \/ \E i \in 1..Len(X) : X[i] = 0
    \/ Len(y) = 2 /\ y[2] > 1
    \/ RowsOf(X) # RowsOf(y)

(* C5: a constructed model has as many rows in X as in y, one column in y  *)
(* and input_dims equal to the columns of X; a constructor given X and y   *)
(* of different row counts, y of more than one column, X of rank above 2   *)
(* or empty X raises ValueError and leaves no model.                       *)
C5_ConstructedShapes ==
    /\ cls # "" =>
          /\ self["X"][2][1] = self["y"][2][1]
          /\ self["y"][2][2] = 1
          /\ self["input_dims"] = IntV(self["X"][2][2])
    /\ (call.op = "__init__" /\ BadTraining(call.args.X, call.args.y)) =>
          /\ ret.err = "ValueError"
          /\ cls = ""
          /\ self = NoModel

(* A constructor that raised for the row counts alone.                     *)
C5_Witness ==
    /\ call.op = "__init__"
    /\ call.args.kernel = TheKernel
    /\ call.args.X = <<MaxDim, 1>>
    /\ call.args.y = <<1>>
    /\ call.args.variance = <<>>
    /\ ret.err = "ValueError"
    /\ pc = "failed"

(* C6: predict(Xs) of every variant, given a query of rank at most 2 whose *)
(* column count after promotion differs from input_dims, raises ValueError *)
(* before any kernel evaluation or factorization and changes nothing of    *)
(* the model.                                                              *)
C6_PredictColumns ==
    [][(/\ pc = "ready"
        /\ call'.op = "predict"
        /\ Len(call'.args.Xs) <= 2
        /\ ColumnsOf(call'.args.Xs) # self["input_dims"][2][1])
       => /\ ret'.err = "ValueError"
          /\ Range(steps') \cap {"kernel", "_cholesky", "torch.linalg.cholesky"} = {}
          /\ UNCHANGED <<objs, self, cls>>]_vars

(* A predict that raised for the column count of a non-empty query.        *)
C6_Witness ==
    /\ call.op = "predict"
    /\ call.args.Xs = <<1, MaxDim>>
    /\ self["input_dims"] = IntV(1)
    /\ ret.err = "ValueError"
    /\ steps = <<"_check_input">>

(* C7: in the registry list of a constructed model no two entries have the *)
(* same name.  It is stated here for entries that are different            *)
(* Parameters: an entry that repeats another one is the matter of C8.      *)
C7_UniqueNames ==
    cls # "" =>
        \A i, j \in 1..Len(Registered) :
            Registered[i] # Registered[j] =>
                objs[Registered[i]].name # objs[Registered[j]].name

(* The Parameters that are reachable from an object through lists and      *)
(* through kernels, means and likelihoods.                                 *)
RECURSIVE Reachable(_)
Reachable(obj) ==
    IF objs[obj].kind = "Parameter" THEN {obj}
    ELSE IF objs[obj].kind = "list" \/ objs[obj].kind \in Walked
    THEN UNION {Reachable(objs[obj].items[i]) : i \in 1..Len(objs[obj].items)}
    ELSE {}

(* C8: every Parameter reachable from the kernel, the likelihood or the    *)
(* mean of a constructed model is in the registry list exactly once.       *)
C8_RegisteredOnce ==
    cls # "" =>
        \A p \in Reachable(self["kernel"][2][1]) \cup Reachable(self["likelihood"][2][1])
                 \cup (IF self["mean"] = NoneV THEN {} ELSE Reachable(self["mean"][2][1])) :
            Cardinality({i \in 1..Len(Registered) : Registered[i] = p}) = 1

(* The positions of the registry list that hold a trainable Parameter, and *)
(* the k-th of them.                                                       *)
TrainablePositions == {i \in 1..Len(Registered) : objs[Registered[i]].trainable}
Position(k) ==
    CHOOSE i \in TrainablePositions : Cardinality({j \in TrainablePositions : j <= i}) = k

(* Where a registered Parameter comes from: 1 the kernel, 2 the            *)
(* likelihood, 3 the mean, 4 the model itself.                             *)
Group(p) ==
    IF p \in Range(objs[self["kernel"][2][1]].items) THEN 1
    ELSE IF p \in Range(objs[self["likelihood"][2][1]].items) THEN 2
    ELSE IF self["mean"] # NoneV /\ p \in Range(objs[self["mean"][2][1]].items) THEN 3
    ELSE 4

(* C9: parameters() yields the unconstrained tensors of exactly the        *)
(* registered Parameters that are trainable when it is iterated, in the    *)
(* order of the registry list, which is kernel, likelihood, mean, own;     *)
(* get_parameters() returns the whole registry list.                       *)
C9_ParametersTrainable ==
    /\ call.op = "parameters" =>
          /\ Len(ret.val) = Cardinality(TrainablePositions)
          /\ \A k \in 1..Len(ret.val) : ret.val[k] = Registered[Position(k)]
    /\ call.op = "get_parameters" => ret.val = Registered
    /\ \A i, j \in 1..Len(Registered) :
          i < j => Group(Registered[i]) <= Group(Registered[j])

(* parameters() of a model with a Parameter that is not trainable between  *)
(* two that are, and Parameters of the kernel, the likelihood, the mean    *)
(* and the model's own.                                                    *)
C9_Witness ==
    /\ call.op = "parameters"
    /\ 0 < Len(ret.val)
    /\ Len(ret.val) < Len(Registered)
    /\ \E i, j, k \in 1..Len(Registered) :
          /\ i < j /\ j < k
          /\ objs[Registered[i]].trainable
          /\ ~objs[Registered[j]].trainable
          /\ objs[Registered[k]].trainable

(* The sum of the log-prior densities of the trainable Parameters among    *)
(* params.                                                                 *)
RECURSIVE TrainablePriors(_)
TrainablePriors(params) ==
    IF params = <<>> THEN 0
    ELSE (IF objs[Head(params)].trainable /\ objs[Head(params)].prior # None
          THEN objs[Head(params)].prior[1] ELSE 0)
         + TrainablePriors(Tail(params))

(* C10: log_prior() is the sum of the log-prior densities of the trainable *)
(* registered Parameters only; it is zero when none of them has a prior.   *)
C10_LogPriorTrainableOnly ==
    call.op = "log_prior" => ret.val = <<TrainablePriors(Registered)>>

(* C11: an Exact model that was given a variance for each data point       *)
(* raises ValueError in predict(Xs, predict_y=True) before the query is    *)
(* validated and before any matrix is computed, whatever Xs, full and      *)
(* tensor are; predict(Xs, predict_y=False) goes on to validate the query. *)
C11_PerDataPredict ==
    (call.op = "predict" /\ cls = "Exact" /\ self["variance_per_data"] = Bool(TRUE)) =>
        IF call.args.predict_y
        THEN ret.err = "ValueError" /\ steps = <<>>
        ELSE steps # <<>> /\ steps[1] = "_check_input"

(* predict_y=True, asked with a valid query of a model with a variance for *)
(* each data point.                                                        *)
C11_Witness ==
    /\ call.op = "predict"
    /\ cls = "Exact"
    /\ self["variance_per_data"] = Bool(TRUE)
    /\ call.args.predict_y
    /\ call.args.full
    /\ call.args.Xs = <<1, self["input_dims"][2][1]>>
    /\ ret.err = "ValueError"
    /\ steps = <<>>

(* The variances the documentation of Exact allows for n data points and a *)
(* kernel of the given output dimensions: a scalar, one value for each     *)
(* channel, or a column of one value for each data point.                  *)
VarianceAllowed(variance, n, output_dims) ==
    \/ Len(variance) = 0
    \/ Len(variance) = 1 /\ variance[1] = output_dims
    \/ Len(variance) = 2 /\ variance[2] = 1 /\ variance[1] = n

(* C12: Exact(kernel, X, y, variance) constructs a model only when the     *)
(* variance is a scalar, of shape (output_dims,) or of shape (n,1) for the *)
(* n data points; with any other shape it raises ValueError.               *)
C12_ExactVariance ==
    (call.op = "__init__" /\ call.args.cls = "Exact"
        /\ ~VarianceAllowed(call.args.variance, RowsOf(call.args.X),
                            objs[call.args.kernel].output_dims)) =>
        ret.err = "ValueError" /\ cls = ""

(* C13: Snelson.predict, given a valid query of S points and matrices that *)
(* factorize, returns a mean of shape (S,1) with a covariance of shape     *)
(* (S,S) when full is set, for both values of predict_y, and with a        *)
(* variance of shape (S,1) when it is not.                                 *)
C13_SnelsonPredictShapes ==
    (call.op = "predict" /\ cls = "Snelson"
        /\ ret.err \notin {"ValueError", "CholeskyException"}) =>
        LET S == RowsOf(call.args.Xs)
        IN  /\ ret.err = ""
            /\ ret.val = << <<S, 1>>, IF call.args.full THEN <<S, S>> ELSE <<S, 1>> >>

(* C14: sample(Z, n) of every variant, given a valid query of M >= 1       *)
(* points and matrices that factorize, returns an array of shape (M, n),   *)
(* and a vector of shape (M,) when n is omitted.                           *)
C14_SampleShapes ==
    (call.op = "sample" /\ Len(call.args.Z) >= 1
        /\ ret.err \notin {"ValueError", "CholeskyException", "RuntimeError"}) =>
        LET M == RowsOf(call.args.Z)
        IN  /\ ret.err = ""
            /\ ret.val = <<IF call.args.n = None THEN <<M>> ELSE <<M, call.args.n[1]>> >>

(* C15: once the model is constructed its X, y and kernel are the ones set *)
(* at construction: no model operation and no attribute assignment         *)
(* changes them.                                                           *)
C15_DataImmutable ==
    [][cls # "" =>
          /\ self'["X"] = self["X"]
          /\ self'["y"] = self["y"]
          /\ self'["kernel"] = self["kernel"]]_vars

----------------------------------------------------------------------------
(* The values.  The operations above are modelled by the shapes of their    *)
(* tensors; the evidence and the predictions are modelled here by their     *)
(* values, in exact arithmetic.  A number is a finite sum of terms          *)
(* (n/d) * sqrt(r) with r square-free, which is what the square roots of    *)
(* a Cholesky factorization of a matrix of rationals produce; it is held    *)
(* as the set of its terms, so that equal numbers are equal sets.           *)

(* With(value, LAMBDA name : e) is e with the value under that name.        *)
With(value, Rest(_)) == Rest(value)

RECURSIVE GCD(_, _)
GCD(a, b) == IF b = 0 THEN a ELSE GCD(b, a % b)

Abs(a) == IF a < 0 THEN 0 - a ELSE a

(* The term (n/d) * sqrt(r) in lowest terms, d # 0.                         *)
Term(r, n, d) ==
    With(GCD(Abs(n), Abs(d)), LAMBDA g :
    With(IF d < 0 THEN 0 - 1 ELSE 1, LAMBDA s :
        [r |-> r, n |-> (s * n) \div g, d |-> (s * d) \div g]))

Number(n, d) == IF n = 0 THEN {} ELSE {Term(1, n, d)}
Zero == Number(0, 1)
One == Number(1, 1)

(* The coefficient of sqrt(r) in x, as a term.                              *)
Coefficient(x, r) ==
    IF \E t \in x : t.r = r THEN CHOOSE t \in x : t.r = r ELSE [r |-> r, n |-> 0, d |-> 1]

(* n/d + m/e over the least common denominator.                             *)
TermSum(t, u) ==
    With(GCD(t.d, u.d), LAMBDA g :
        Term(t.r, t.n * (u.d \div g) + u.n * (t.d \div g), (t.d \div g) * u.d))

Add(x, y) ==
    {s \in {TermSum(Coefficient(x, r), Coefficient(y, r)) : r \in {t.r : t \in x \cup y}} :
        s.n # 0}

Neg(x) == {[t EXCEPT !.n = 0 - t.n] : t \in x}
Sub(x, y) == Add(x, Neg(y))

(* sqrt(r) * sqrt(q) = g * sqrt((r/g) * (q/g)) for square-free r and q.     *)
TermProduct(t, u) ==
    With(GCD(t.r, u.r), LAMBDA g :
    With(GCD(Abs(t.n), u.d), LAMBDA a :
    With(GCD(Abs(u.n), t.d), LAMBDA b :
    With(GCD(g, t.d \div b), LAMBDA c :
    With(GCD(g \div c, u.d \div a), LAMBDA e :
        Term((t.r \div g) * (u.r \div g),
             (t.n \div a) * (u.n \div b) * (g \div (c * e)),
             ((t.d \div b) \div c) * ((u.d \div a) \div e)))))))

RECURSIVE Mul(_, _)
Mul(x, y) ==
    IF x = {} \/ y = {} THEN {}
    ELSE LET t == CHOOSE t \in x : TRUE
         IN  Add({TermProduct(t, u) : u \in y}, Mul(x \ {t}, y))

(* Division by a number of one term, which every divisor here is: the       *)
(* diagonal of a factor, a variance.                                        *)
Div(x, y) ==
    LET t == CHOOSE t \in y : TRUE
    IN  Mul(x, {Term(t.r, t.d, t.n * t.r)})

(* The largest r in lo..hi with r * r <= m.                                 *)
RECURSIVE Root(_, _, _)
Root(m, lo, hi) ==
    IF lo = hi THEN lo
    ELSE LET mid == (lo + hi + 1) \div 2
         IN  IF mid * mid <= m THEN Root(m, mid, hi) ELSE Root(m, lo, mid - 1)

(* m = k * k * r with r square-free: SquarePart(m, 2) is k.  The primes p   *)
(* with p^3 <= m are taken out one after the other; what is left is a       *)
(* square or square-free.                                                   *)
RECURSIVE SquarePart(_, _)
SquarePart(m, p) ==
    IF p > 1290 \/ p * p * p > m
    THEN With(Root(m, 1, 46340), LAMBDA r : IF r * r = m THEN r ELSE 1)
    ELSE IF m % (p * p) = 0 THEN p * SquarePart(m \div (p * p), p)
    ELSE IF m % p = 0 THEN SquarePart(m \div p, p + 1)
    ELSE SquarePart(m, p + 1)

IsRational(x) == \A t \in x : t.r = 1
Positive(x) == x # {} /\ \A t \in x : t.n > 0

(* The square root of a positive rational n/d, with n = k*k*r and           *)
(* d = j*j*q: (k / (j*q)) * sqrt(r*q).                                      *)
Sqrt(x) ==
    With(CHOOSE t \in x : TRUE, LAMBDA t :
    With(SquarePart(t.n, 2), LAMBDA k :
    With(SquarePart(t.d, 2), LAMBDA j :
    With(t.d \div (j * j), LAMBDA q :
        {Term((t.n \div (k * k)) * q, k, j * q)}))))

(* Matrices are sequences of rows; a vector is a matrix of one column.      *)
(* Listed(f, n) is the sequence f[1], ..., f[n].                            *)
RECURSIVE Listed(_, _)
Listed(f, n) == IF n = 0 THEN <<>> ELSE Append(Listed(f, n - 1), f[n])

rows(A) == Len(A)
columns(A) == IF Len(A) = 0 THEN 0 ELSE Len(A[1])

RECURSIVE Total(_, _)
Total(f, k) == IF k = 0 THEN Zero ELSE Add(Total(f, k - 1), f[k])

mm(A, B) ==
    Listed([i \in 1..rows(A) |->
               Listed([j \in 1..columns(B) |->
                          Total([k \in 1..columns(A) |-> Mul(A[i][k], B[k][j])], columns(A))],
                      columns(B))],
           rows(A))

transpose(A) ==
    Listed([j \in 1..columns(A) |-> Listed([i \in 1..rows(A) |-> A[i][j]], rows(A))],
           columns(A))
diagonal(A) == Listed([i \in 1..rows(A) |-> A[i][i]], rows(A))
diagflat(v) ==
    Listed([i \in 1..Len(v) |-> Listed([j \in 1..Len(v) |-> IF i = j THEN v[i] ELSE Zero],
                                       Len(v))],
           Len(v))
tril(A) ==
    Listed([i \in 1..rows(A) |->
               Listed([j \in 1..columns(A) |-> IF j <= i THEN A[i][j] ELSE Zero], columns(A))],
           rows(A))
eye(n) == diagflat(Listed([i \in 1..n |-> One], n))
zeros(n, m) == Listed([i \in 1..n |-> Listed([j \in 1..m |-> Zero], m)], n)
column(v) == Listed([i \in 1..Len(v) |-> <<v[i]>>], Len(v))
Plus(A, B) ==
    Listed([i \in 1..rows(A) |->
               Listed([j \in 1..columns(A) |-> Add(A[i][j], B[i][j])], columns(A))],
           rows(A))
Minus(A, B) ==
    Listed([i \in 1..rows(A) |->
               Listed([j \in 1..columns(A) |-> Sub(A[i][j], B[i][j])], columns(A))],
           rows(A))
Scaled(A, x) ==
    Listed([i \in 1..rows(A) |->
               Listed([j \in 1..columns(A) |-> Mul(A[i][j], x)], columns(A))],
           rows(A))
squeeze(A) == A[1][1]
mean(v) == Div(Total(v, Len(v)), Number(Len(v), 1))

(* torch.linalg.cholesky by rows: the entries left of the diagonal, then    *)
(* the diagonal, which is the square root of what is left of A[i][i]; the   *)
(* factorization fails when that is not positive.                           *)
RECURSIVE CholeskyRow(_, _, _, _)
CholeskyRow(A, L, i, j) ==
    IF j = 0 THEN <<>>
    ELSE With(CholeskyRow(A, L, i, j - 1), LAMBDA left :
         With(Sub(A[i][j],
                  Total([k \in 1..(j - 1) |->
                            Mul(left[k], IF j = i THEN left[k] ELSE L[j][k])],
                        j - 1)), LAMBDA rest :
             Append(left, IF j = i THEN rest ELSE Div(rest, L[j][j]))))

RECURSIVE CholeskyRows(_, _)
CholeskyRows(A, i) ==
    IF i = 0 THEN [ok |-> TRUE, L |-> <<>>]
    ELSE With(CholeskyRows(A, i - 1), LAMBDA above :
             IF ~above.ok THEN above
             ELSE With(CholeskyRow(A, above.L, i, i), LAMBDA row :
                      IF ~(IsRational(row[i]) /\ Positive(row[i]))
                      THEN [ok |-> FALSE, L |-> <<>>]
                      ELSE [ok |-> TRUE,
                            L |-> Append(above.L,
                                    Listed([j \in 1..rows(A) |->
                                               IF j < i THEN row[j]
                                               ELSE IF j = i THEN Sqrt(row[i]) ELSE Zero],
                                           rows(A)))]))

torch_linalg_cholesky(A) == CholeskyRows(A, rows(A))

(* torch.linalg.solve_triangular(L, B, upper=False): forward substitution.  *)
RECURSIVE Forward(_, _, _)
Forward(L, b, i) ==
    IF i = 0 THEN <<>>
    ELSE With(Forward(L, b, i - 1), LAMBDA x :
             Append(x, Div(Sub(b[i], Total([k \in 1..(i - 1) |-> Mul(L[i][k], x[k])], i - 1)),
                           L[i][i])))

(* upper=True: back substitution, x[i] from the entries below it.           *)
RECURSIVE Backward(_, _, _)
Backward(U, b, i) ==
    IF i > rows(U) THEN Listed([k \in 1..rows(U) |-> Zero], rows(U))
    ELSE With(Backward(U, b, i + 1), LAMBDA x :
             [x EXCEPT ![i] =
                Div(Sub(b[i], Total([k \in 1..(rows(U) - i) |-> Mul(U[i][i + k], x[i + k])],
                                    rows(U) - i)),
                    U[i][i])])

solve_triangular(L, B, upper) ==
    transpose(Listed([c \in 1..columns(B) |->
                        IF upper THEN Backward(L, transpose(B)[c], 1)
                        ELSE Forward(L, transpose(B)[c], rows(L))],
                     columns(B)))

(* torch.cholesky_solve(y, L): the solution x of L L' x = y.                *)
cholesky_solve(y, L) ==
    solve_triangular(transpose(L), solve_triangular(L, y, FALSE), TRUE)

(* a.T.square().sum(dim=1): for each column of a the sum of its squares.    *)
square_sum(a) ==
    Listed([j \in 1..columns(a) |->
               Total([i \in 1..rows(a) |-> Mul(a[i][j], a[i][j])], rows(a))],
           columns(a))

AddTo(v, w) == Listed([i \in 1..Len(v) |-> Add(v[i], w[i])], Len(v))
(* v - w and v + x of vectors; TakeFrom_reversed is w - v.                  *)
TakeFrom_reversed(v, w) == Listed([i \in 1..Len(v) |-> Sub(w[i], v[i])], Len(v))
TakeFrom(v, w) == Listed([i \in 1..Len(v) |-> Sub(v[i], w[i])], Len(v))
Raise(v, x) == Listed([i \in 1..Len(v) |-> Add(v[i], x)], Len(v))


(* A scalar that carries logarithms: x + 1/2 ln(ln) + pi * 1/2 ln(2 pi),    *)
(* with x a number and ln a positive rational.  log(v) of a positive v of   *)
(* one term is 1/2 ln(v * v), and log(1) is 0.                              *)
Scalar(x) == [x |-> x, ln |-> One, pi |-> 0]
log(v) == [x |-> Zero, ln |-> Mul(v, v), pi |-> 0]
plus(a, b) == [x |-> Add(a.x, b.x), ln |-> Mul(a.ln, b.ln), pi |-> a.pi + b.pi]
minus(a, b) == [x |-> Sub(a.x, b.x), ln |-> Div(a.ln, b.ln), pi |-> a.pi - b.pi]
(* half is taken of scalars that have no 2 pi term.                         *)
half(a) == [x |-> Mul(a.x, Number(1, 2)), ln |-> Sqrt(a.ln), pi |-> 0]

RECURSIVE times(_, _)
times(a, k) == IF k = 0 THEN Scalar(Zero) ELSE plus(a, times(a, k - 1))

RECURSIVE LogSum(_, _)
LogSum(v, k) == IF k = 0 THEN Scalar(Zero) ELSE plus(LogSum(v, k - 1), log(v[k]))

(* v.log().sum() and v.sum() of a vector, A.trace() of a matrix.            *)
log_sum(v) == LogSum(v, Len(v))
sum(v) == Total(v, Len(v))
trace(A) == sum(diagonal(A))
square(v) == Listed([i \in 1..Len(v) |-> Mul(v[i], v[i])], Len(v))

(* The kernel, which is not part of the model's source: a linear kernel of  *)
(* magnitude k, k(x, x') = k * <x, x'>, whose matrices are positive         *)
(* semi-definite and singular when points repeat.                           *)
kernel(k, A, B) == Scaled(mm(A, transpose(B)), k)
K_diag(k, A) == diagonal(kernel(k, A, A))

(* The mean function, a constant c: mean(X).reshape(-1,1).                  *)
mean_of(c, A) == Listed([i \in 1..rows(A) |-> <<c>>], rows(A))

(* Model._cholesky on values, lines 222-235: the factor, or the exception.  *)
_cholesky_factor(K, add_jitter, jitter) ==
    With(torch_linalg_cholesky(
             IF add_jitter
             THEN Plus(K, Scaled(eye(rows(K)), Mul(jitter, mean(diagonal(K)))))
             ELSE K),
         LAMBDA f : [err |-> IF f.ok THEN "" ELSE "CholeskyException", L |-> f.L])

Raised(err) == Outcome(err, <<>>, <<>>)
Returned(val) == Outcome("", <<val>>, <<>>)

(* The training data as they are: no mean is subtracted.                    *)
Centred_never(d) == d.y

(* The training data less the mean, lines 366-369, 658-661, 788-791.        *)
Centred(d) ==
    IF d.mean # None THEN Minus(d.y, mean_of(d.mean[1], d.X)) ELSE d.y

(* kl_gaussian without the term -q_mu.shape[0] of line 781.                 *)
kl_gaussian_unshifted(q_mu, q_sqrt) ==
    With(square(diagonal(q_sqrt)), LAMBDA S_diag :
        half(plus(minus(Scalar(squeeze(mm(transpose(q_mu), q_mu))), log_sum(S_diag)),
                  Scalar(sum(S_diag)))))

(* SparseHensman.kl_gaussian, lines 779-785.                                *)
kl_gaussian(q_mu, q_sqrt) ==
    With(square(diagonal(q_sqrt)), LAMBDA S_diag :
    With(Scalar(Number(0 - rows(q_mu), 1)), LAMBDA kl0 :
    With(plus(kl0, Scalar(squeeze(mm(transpose(q_mu), q_mu)))), LAMBDA kl1 :
    With(minus(kl1, log_sum(S_diag)), LAMBDA kl2 :
    With(plus(kl2, Scalar(sum(S_diag))), LAMBDA kl3 :
        half(kl3))))))

(* SparseHensman._predict, lines 814-830: the mean and the variance of      *)
(* q(f) at the points Xs.                                                   *)
SparseHensman__predict(d, Xs, full) ==
    With(kernel(d.kernel, d.Z, d.Z), LAMBDA Kuu :
    With(kernel(d.kernel, d.Z, Xs), LAMBDA Kus :
    With(_cholesky_factor(Kuu, TRUE, d.jitter), LAMBDA f :
    With(solve_triangular(f.L, Kus, FALSE), LAMBDA a :
    With(mm(transpose(tril(d.q_sqrt)), solve_triangular(f.L, Kus, FALSE)), LAMBDA b :
    With(mm(transpose(Kus), solve_triangular(transpose(f.L), d.q_mu, TRUE)), LAMBDA mu :
        IF f.err # "" THEN Raised(f.err)
        ELSE IF full
        THEN Returned(<<mu, Plus(Minus(kernel(d.kernel, Xs, Xs), mm(transpose(a), a)),
                                 mm(transpose(b), b))>>)
        ELSE Returned(<<mu, column(AddTo(TakeFrom(K_diag(d.kernel, Xs), square_sum(a)),
                                         square_sum(b)))>>)))))))

(* The non-sparse branch of elbo(), lines 796-804.                          *)
Dense(d) ==
    With(kernel(d.kernel, d.X, d.X), LAMBDA Kff :
    With(_cholesky_factor(Kff, TRUE, d.jitter), LAMBDA f :
    With(mm(f.L, d.q_mu), LAMBDA qf_mu :
    With(mm(f.L, tril(d.q_sqrt)), LAMBDA qf_sqrt :
        IF f.err # "" THEN Raised(f.err)
        ELSE Returned(<<IF d.mean # None THEN Minus(qf_mu, mean_of(d.mean[1], d.X)) ELSE qf_mu,
                        column(diagonal(mm(qf_sqrt, transpose(qf_sqrt))))>>)))))

(* What elbo() passes to likelihood.variational_expectation, lines 787-806: *)
(* y, the mean and the diagonal of the variance of q(f).                    *)
Passed(d) ==
    With(IF d.is_sparse THEN SparseHensman__predict(d, d.X, FALSE) ELSE Dense(d), LAMBDA q :
        IF q.err # "" THEN q
        ELSE Returned([y |-> Centred(d), qf_mu |-> q.val[1][1], qf_var_diag |-> q.val[1][2]]))

(* SparseHensman.elbo, lines 787-808: var_exp - kl, where var_exp is the    *)
(* likelihood's variational expectation of what is passed to it.            *)
SparseHensman_elbo(d) ==
    With(Passed(d), LAMBDA p :
        IF p.err # "" THEN p
        ELSE Returned([variational_expectation |-> p.val[1]]
                        @@ minus(Scalar(Zero), kl_gaussian(d.q_mu, d.q_sqrt))))

(* likelihood.scale() is held as a vector: of one variance, or of a         *)
(* variance for each data point.  The noise on the diagonal of Kff, lines   *)
(* 360-363 and 388-391, is the one or the other (_index_channel returns     *)
(* the scale itself for a kernel of one output).                            *)
scale(d) == d.scale[1]
Noise(d) ==
    IF d.variance_per_data THEN diagflat(d.scale) ELSE Scaled(eye(rows(d.X)), scale(d))

(* self.log_marginal_likelihood_constant, lines 354, 650, 763.              *)
log_marginal_likelihood_constant(d) == [x |-> Zero, ln |-> One, pi |-> rows(d.X)]

(* Exact.log_marginal_likelihood, lines 358-374.                            *)
Exact_log_marginal_likelihood(d) ==
    With(Plus(kernel(d.kernel, d.X, d.X), Noise(d)), LAMBDA Kff :
    With(_cholesky_factor(Kff, TRUE, d.jitter), LAMBDA f :
    With(Centred(d), LAMBDA y :
    With(minus(Scalar(Zero), log_marginal_likelihood_constant(d)), LAMBDA p0 :
    With(minus(p0, log_sum(diagonal(f.L))), LAMBDA p1 :
    With(minus(p1, half(Scalar(squeeze(mm(transpose(y), cholesky_solve(y, f.L)))))), LAMBDA p2 :
        IF f.err # "" THEN Raised(f.err) ELSE Returned(p2)))))))

(* Titsias.elbo, lines 657-681.                                             *)
Titsias_elbo(d) ==
    With(Centred(d), LAMBDA y :
    With(K_diag(d.kernel, d.X), LAMBDA Kff_diag :
    With(kernel(d.kernel, d.Z, d.X), LAMBDA Kuf :
    With(kernel(d.kernel, d.Z, d.Z), LAMBDA Kuu :
    With(_cholesky_factor(Kuu, TRUE, d.jitter), LAMBDA fuu :
    With(solve_triangular(fuu.L, Kuf, FALSE), LAMBDA v :
    With(mm(v, transpose(v)), LAMBDA Q :
    With(_cholesky_factor(Plus(Scaled(Q, Div(One, scale(d))), eye(rows(d.Z))),
                          FALSE, d.jitter), LAMBDA f :
    With(Scaled(solve_triangular(f.L, mm(v, y), FALSE), Div(One, scale(d))), LAMBDA c :
    With(minus(Scalar(Zero), log_marginal_likelihood_constant(d)), LAMBDA p0 :
    With(minus(p0, log_sum(diagonal(f.L))), LAMBDA p1 :
    With(minus(p1, half(times(log(scale(d)), rows(d.X)))), LAMBDA p2 :
    With(minus(p2, half(Scalar(Div(squeeze(mm(transpose(y), y)), scale(d))))), LAMBDA p3 :
    With(plus(p3, half(Scalar(squeeze(mm(transpose(c), c))))), LAMBDA p4 :
    With(minus(p4, half(Scalar(Div(Sub(sum(Kff_diag), trace(Q)), scale(d))))), LAMBDA p5 :
        IF fuu.err # "" THEN Raised(fuu.err)
        ELSE IF f.err # "" THEN Raised(f.err)
        ELSE Returned(p5))))))))))))))))

(* A prediction with the mean function added to its mean, lines 398-399,    *)
(* 500-501, 606-607, 709-710, 839-840.                                      *)
WithMean(d, Xs, mu) ==
    IF d.mean # None THEN Plus(mu, mean_of(d.mean[1], Xs)) ELSE mu

(* Exact.predict, lines 376-417.                                            *)
Exact_predict(d, Xs, full, predict_y) ==
    With(Centred(d), LAMBDA y :
    With(Plus(kernel(d.kernel, d.X, d.X), Noise(d)), LAMBDA Kff :
    With(kernel(d.kernel, d.X, Xs), LAMBDA Kfs :
    With(_cholesky_factor(Kff, TRUE, d.jitter), LAMBDA f :
    With(solve_triangular(f.L, Kfs, FALSE), LAMBDA v :
    With(WithMean(d, Xs, mm(transpose(Kfs), cholesky_solve(y, f.L))), LAMBDA mu :
    With(Minus(kernel(d.kernel, Xs, Xs), mm(transpose(v), v)), LAMBDA var :
    With(TakeFrom(K_diag(d.kernel, Xs), square_sum(v)), LAMBDA dia :
        IF d.variance_per_data /\ predict_y THEN Raised("ValueError")
        ELSE IF f.err # "" THEN Raised(f.err)
        ELSE IF full
        THEN Returned(<<mu, IF predict_y THEN Plus(var, Scaled(eye(rows(Xs)), scale(d)))
                            ELSE var>>)
        ELSE Returned(<<mu, column(IF predict_y THEN Raise(dia, scale(d)) ELSE dia)>>)))))))))

(* Snelson.predict, lines 478-521.  The full branch reads the names w and   *)
(* u, which nothing defines.                                                *)
Snelson_predict(d, Xs, full, predict_y) ==
    With(Centred(d), LAMBDA y :
    With(kernel(d.kernel, d.Z, d.X), LAMBDA Kuf :
    With(kernel(d.kernel, d.Z, d.Z), LAMBDA Kuu :
    With(kernel(d.kernel, d.Z, Xs), LAMBDA Kus :
    With(_cholesky_factor(Kuu, TRUE, d.jitter), LAMBDA fuu :
    With(solve_triangular(fuu.L, Kuf, FALSE), LAMBDA v :
    With(Raise(TakeFrom(K_diag(d.kernel, d.X), square_sum(v)), scale(d)), LAMBDA g :
    With(diagflat(Listed([i \in 1..Len(g) |-> Div(One, g[i])], Len(g))), LAMBDA G :
    With(_cholesky_factor(Plus(mm(mm(v, G), transpose(v)), eye(rows(d.Z))),
                                FALSE, d.jitter), LAMBDA f :
    With(solve_triangular(fuu.L, Kus, FALSE), LAMBDA a :
    With(solve_triangular(f.L, a, FALSE), LAMBDA b :
    With(solve_triangular(f.L, mm(mm(v, G), y), FALSE), LAMBDA c :
    With(WithMean(d, Xs, mm(transpose(b), c)), LAMBDA mu :
    With(AddTo(TakeFrom(K_diag(d.kernel, Xs), square_sum(a)), square_sum(b)), LAMBDA dia :
        IF fuu.err # "" THEN Raised(fuu.err)
        ELSE IF f.err # "" THEN Raised(f.err)
        ELSE IF full THEN Raised("NameError")
        ELSE Returned(<<mu, column(IF predict_y THEN Raise(dia, scale(d)) ELSE dia)>>)))))))))))))))

(* likelihood.predict(mu, var, full=full, X=Xs) of the Gaussian likelihood, *)
(* which adds the noise to the variance.                                    *)
likelihood_predict(d, mu, var, full) ==
    <<mu, IF full THEN Plus(var, Scaled(eye(rows(var)), scale(d)))
          ELSE column(Raise(transpose(var)[1], scale(d)))>>

(* OpperArchambeau.predict, lines 594-622.                                  *)
OpperArchambeau_predict(d, Xs, full, predict_y) ==
    With(kernel(d.kernel, d.X, d.X), LAMBDA Kff :
    With(kernel(d.kernel, d.X, Xs), LAMBDA Kfs :
    With(_cholesky_factor(
                   Plus(Kff, diagflat(Listed([i \in 1..rows(d.q_lambda) |->
                                                 Div(One, Mul(d.q_lambda[i][1],
                                                              d.q_lambda[i][1]))],
                                             rows(d.q_lambda)))),
                   FALSE, d.jitter), LAMBDA f :
    With(solve_triangular(f.L, Kfs, FALSE), LAMBDA a :
    With(WithMean(d, Xs, mm(transpose(Kfs), d.q_nu)), LAMBDA mu :
    With(IF full THEN Minus(kernel(d.kernel, Xs, Xs), mm(transpose(a), a))
               ELSE column(TakeFrom(K_diag(d.kernel, Xs), square_sum(a))), LAMBDA var :
        IF f.err # "" THEN Raised(f.err)
        ELSE IF predict_y THEN Returned(likelihood_predict(d, mu, var, full))
        ELSE Returned(<<mu, var>>)))))))

(* Titsias.predict, lines 687-731.                                          *)
Titsias_predict(d, Xs, full, predict_y) ==
    With(Centred(d), LAMBDA y :
    With(kernel(d.kernel, d.Z, Xs), LAMBDA Kus :
    With(kernel(d.kernel, d.Z, d.X), LAMBDA Kuf :
    With(kernel(d.kernel, d.Z, d.Z), LAMBDA Kuu :
    With(_cholesky_factor(Kuu, TRUE, d.jitter), LAMBDA fuu :
    With(solve_triangular(fuu.L, Kuf, FALSE), LAMBDA v :
    With(_cholesky_factor(Plus(Scaled(mm(v, transpose(v)), Div(One, scale(d))),
                                     eye(rows(d.Z))), FALSE, d.jitter), LAMBDA f :
    With(solve_triangular(fuu.L, Kus, FALSE), LAMBDA a :
    With(solve_triangular(f.L, a, FALSE), LAMBDA b :
    With(Scaled(solve_triangular(f.L, mm(v, y), FALSE), Div(One, scale(d))), LAMBDA c :
    With(WithMean(d, Xs, mm(transpose(b), c)), LAMBDA mu :
    With(Plus(Minus(kernel(d.kernel, Xs, Xs), mm(transpose(a), a)), mm(transpose(b), b)), LAMBDA var :
    With(AddTo(TakeFrom(K_diag(d.kernel, Xs), square_sum(a)), square_sum(b)), LAMBDA dia :
        IF fuu.err # "" THEN Raised(fuu.err)
        ELSE IF f.err # "" THEN Raised(f.err)
        ELSE IF full
        THEN Returned(<<mu, IF predict_y THEN Plus(var, Scaled(eye(rows(Xs)), scale(d)))
                            ELSE var>>)
        ELSE Returned(<<mu, column(IF predict_y THEN Raise(dia, scale(d)) ELSE dia)>>))))))))))))))

(* SparseHensman.predict, lines 832-845.                                    *)
SparseHensman_predict(d, Xs, full, predict_y) ==
    With(SparseHensman__predict(d, Xs, full), LAMBDA p :
    With(IF predict_y THEN likelihood_predict(d, p.val[1][1], p.val[1][2], full)
             ELSE p.val[1], LAMBDA q :
        IF p.err # "" THEN p
        ELSE Returned(<<WithMean(d, Xs, q[1]), q[2]>>)))

----------------------------------------------------------------------------
(* The models by their values.  In the specifications below self holds the  *)
(* values of the model's attributes: the kernel's magnitude, the data, the  *)
(* noise variance, the inducing points and the variational parameters.      *)

MaxPoints == 2
MaxInducing == 1

(* The points of the input space, the inputs and the observations.          *)
Points == {<<One, Zero>>, <<One, One>>}
Inputs == UNION {[1..n -> Points] : n \in 1..MaxPoints}
Inducing == UNION {[1..n -> Points] : n \in 1..MaxInducing}
Observations(n) == [1..n -> {<<Zero>>, <<One>>}]
Magnitudes == {Number(JitterDen * MaxPoints, 1)}
Variances == {Number(JitterDen, 1), Number(JitterDen * JitterDen, 1)}
ValueJitters == {Number(JitterFloor64, JitterDen), Number(JitterFloor32 + 1, JitterDen)}
ValueMeans == {None, Some(One)}

NoValues ==
    [kernel |-> None, X |-> None, y |-> None, mean |-> None, jitter |-> None,
     scale |-> None, variance_per_data |-> FALSE, Z |-> None, is_sparse |-> FALSE,
     q_mu |-> None, q_sqrt |-> None, q_nu |-> None, q_lambda |-> None]

(* Model.__init__, lines 66-73, on values.                                  *)
Model_values(k, X, y, variance, jitter, m) ==
    [NoValues EXCEPT !.kernel = k, !.X = X, !.y = y, !.mean = m, !.jitter = jitter,
                     !.scale = variance]

(* Exact.__init__, lines 343-356: a variance of shape (n,1) is a variance   *)
(* for each data point.                                                     *)
Exact_values(k, X, y, variance, per_data, jitter, m) ==
    [Model_values(k, X, y,
                  IF per_data THEN Listed([i \in 1..rows(X) |-> variance], rows(X))
                  ELSE <<variance>>,
                  jitter, m)
        EXCEPT !.variance_per_data = per_data]

(* Snelson.__init__ and Titsias.__init__, lines 435-451 and 641-655.        *)
Inducing_values(k, X, y, Z, variance, jitter, m) ==
    [Model_values(k, X, y, <<variance>>, jitter, m) EXCEPT !.Z = Z]

(* OpperArchambeau.__init__, lines 538-549.                                 *)
OpperArchambeau_values(k, X, y, variance, jitter, m) ==
    [Model_values(k, X, y, <<variance>>, jitter, m)
        EXCEPT !.q_nu = zeros(rows(X), 1),
               !.q_lambda = Listed([i \in 1..rows(X) |-> <<One>>], rows(X))]

(* SparseHensman.__init__, lines 751-777; Z is None for Hensman, line 864,  *)
(* and then self.Z holds X.                                                 *)
SparseHensman_values(k, X, y, Z, variance, jitter, m) ==
    LET n == IF Z # None THEN rows(Z[1]) ELSE rows(X)
    IN  [Model_values(k, X, y, <<variance>>, jitter, m)
            EXCEPT !.is_sparse = (Z # None),
                   !.Z = IF Z # None THEN Z[1] ELSE X,
                   !.q_mu = zeros(n, 1),
                   !.q_sqrt = eye(n)]

(* The training data: inputs with an observation for each.                  *)
Data == UNION {{<<X, y>> : y \in Observations(rows(X))} : X \in Inputs}

(* The models of a variant over all the data.                               *)
Constructed(c) ==
    {IF c = "Exact"
     THEN Exact_values(k, D[1], D[2], variance, per_data, jitter, m)
     ELSE IF c \in {"Snelson", "Titsias"}
     THEN Inducing_values(k, D[1], D[2], Z, variance, jitter, m)
     ELSE IF c = "OpperArchambeau"
     THEN OpperArchambeau_values(k, D[1], D[2], variance, jitter, m)
     ELSE IF c = "SparseHensman"
     THEN SparseHensman_values(k, D[1], D[2], Some(Z), variance, jitter, m)
     ELSE SparseHensman_values(k, D[1], D[2], None, variance, jitter, m) :
        k \in Magnitudes, D \in Data, Z \in Inducing, variance \in Variances,
        per_data \in BOOLEAN, jitter \in ValueJitters, m \in ValueMeans}

(* The variational parameters after training: q_mu (q_nu) filled with u and *)
(* q_sqrt with w on the diagonal and 1 elsewhere (q_lambda filled with w);  *)
(* u = 0 and w = 1 are the values of the constructor.                       *)
Filled(n, x) == Listed([i \in 1..n |-> <<x>>], n)
Square(n, x) ==
    Listed([i \in 1..n |->
               Listed([j \in 1..n |-> IF i = j THEN x ELSE IF x = One THEN Zero ELSE One], n)],
           n)

(* An optimizer step: the trainable parameters q_mu and q_sqrt (q_nu and    *)
(* q_lambda) that parameters() hands out get new values.                    *)
Train ==
    /\ pc = "ready"
    /\ cls \in {"SparseHensman", "Hensman", "OpperArchambeau"}
    /\ \E u \in {Zero, One}, w \in {One, Number(2, 1)} :
          /\ self' = IF cls = "OpperArchambeau"
                     THEN [self EXCEPT !.q_nu = Filled(rows(self.q_nu), u),
                                       !.q_lambda = Filled(rows(self.q_lambda), w)]
                     ELSE [self EXCEPT !.q_mu = Filled(rows(self.q_mu), u),
                                       !.q_sqrt = Square(rows(self.q_sqrt), w)]
          /\ Returns("step", [q_mu |-> u, q_sqrt |-> w], Outcome("", <<>>, <<>>))
    /\ pc' = "returned"
    /\ UNCHANGED <<objs, cls>>

(* model.log_marginal_likelihood(), which is elbo() for the variational     *)
(* models (lines 683-685, 810-812).                                         *)
Evidence ==
    /\ pc = "ready"
    /\ cls \in {"Exact", "Titsias", "SparseHensman", "Hensman"}
    /\ Returns(IF cls = "Exact" THEN "log_marginal_likelihood" ELSE "elbo", <<>>,
               IF cls = "Exact" THEN Exact_log_marginal_likelihood(self)
               ELSE IF cls = "Titsias" THEN Titsias_elbo(self)
               ELSE SparseHensman_elbo(self))
    /\ pc' = "returned"
    /\ UNCHANGED <<objs, self, cls>>

(* model.predict(Xs, full=full, predict_y=predict_y) by its values.         *)
predict_values(c, d, Xs, full, predict_y) ==
    IF c = "Exact" THEN Exact_predict(d, Xs, full, predict_y)
    ELSE IF c = "Snelson" THEN Snelson_predict(d, Xs, full, predict_y)
    ELSE IF c = "OpperArchambeau" THEN OpperArchambeau_predict(d, Xs, full, predict_y)
    ELSE IF c = "Titsias" THEN Titsias_predict(d, Xs, full, predict_y)
    ELSE SparseHensman_predict(d, Xs, full, predict_y)

PredictValues ==
    /\ pc = "ready"
    /\ \E Xs \in Inputs, full \in BOOLEAN, predict_y \in BOOLEAN :
          Returns("predict", [Xs |-> Xs, full |-> full, predict_y |-> predict_y],
                  predict_values(cls, self, Xs, full, predict_y))
    /\ pc' = "returned"
    /\ UNCHANGED <<objs, self, cls>>

InitValues(variants) ==
    /\ objs = <<>>
    /\ cls \in variants
    /\ self \in Constructed(cls)
    /\ pc = "ready"
    /\ call = NoCall
    /\ ret = NoReturn
    /\ steps = <<>>

(* The evidence of the constructed and of the trained models.               *)
InitEvidence == InitValues({"Exact", "Titsias", "SparseHensman", "Hensman"})

NextEvidence ==
    \/ Train
    \/ Evidence
    \/ Resume

SpecEvidence == InitEvidence /\ [][NextEvidence]_vars

(* The predictions of the constructed and of the trained models.            *)
InitVariance ==
    /\ InitValues({"Exact", "Snelson", "OpperArchambeau", "Titsias", "SparseHensman", "Hensman"})
    /\ self.y = Filled(rows(self.X), One)

NextVariance ==
    \/ Train
    \/ PredictValues
    \/ Resume

SpecVariance == InitVariance /\ [][NextVariance]_vars

(* The determinant and the inverse of a matrix of numbers, by cofactors.    *)
Without(A, i, j) ==
    Listed([r \in 1..(rows(A) - 1) |->
               Listed([c \in 1..(rows(A) - 1) |->
                          A[IF r < i THEN r ELSE r + 1][IF c < j THEN c ELSE c + 1]],
                      rows(A) - 1)],
           rows(A) - 1)

RECURSIVE Determinant(_)
Determinant(A) ==
    IF rows(A) = 0 THEN One
    ELSE Total([j \in 1..rows(A) |->
                   Mul(IF j % 2 = 1 THEN A[1][j] ELSE Neg(A[1][j]),
                       Determinant(Without(A, 1, j)))], rows(A))

Inverse(A) ==
    Listed([i \in 1..rows(A) |->
               Listed([j \in 1..rows(A) |->
                          Div(IF (i + j) % 2 = 0 THEN Determinant(Without(A, j, i))
                              ELSE Neg(Determinant(Without(A, j, i))),
                              Determinant(A))],
                      rows(A))],
           rows(A))

(* -1/2 y' A^-1 y - 1/2 ln det A - n/2 ln(2 pi)                             *)
ClosedForm(A, y) ==
    [x  |-> Mul(Number(0 - 1, 2), squeeze(mm(transpose(y), mm(Inverse(A), y)))),
     ln |-> Div(One, Determinant(A)),
     pi |-> 0 - rows(A)]

(* The model's values with the jitter term left out of every factorization, *)
(* and the SparseHensman with the same values whose inducing points are the *)
(* training inputs.                                                         *)
Unjittered(d) == [d EXCEPT !.jitter = Zero]
SparseTwin(d) == [d EXCEPT !.is_sparse = TRUE, !.Z = d.X]

(* C16: in elbo() the non-sparse branch of a Hensman passes to variational_expectation the same mean and the same variance diagonal of q(f) as the sparse branch does with Z = X, the jitter term apart, with and without a mean function. *)
C16_HensmanEquivalent ==
    (cls = "Hensman" /\ call.op = "elbo" /\ ret.err = ""
        /\ Passed(Unjittered(self)).err = "") =>
        Passed(Unjittered(self)) = Passed(SparseTwin(Unjittered(self)))

(* The same with no mean function, where the two branches do agree.         *)
C16_HensmanEquivalentNoMean ==
    (cls = "Hensman" /\ self.mean = None) => C16_HensmanEquivalent

(* The largest n for which the divergence of the fresh q(u) is computed.    *)
MaxFresh == 4

(* C17: for a Hensman as constructed, of any n, with q_mu of zeros and q_sqrt the identity, kl_gaussian is exactly zero, and elbo() is the variational expectation alone. *)
C17_FreshKLZero ==
    /\ \A n \in 1..MaxFresh : kl_gaussian(zeros(n, 1), eye(n)) = Scalar(Zero)
    /\ (cls = "Hensman" /\ call.op = "elbo" /\ ret.err = ""
           /\ self.q_mu = zeros(rows(self.X), 1) /\ self.q_sqrt = eye(rows(self.X))) =>
           /\ kl_gaussian(self.q_mu, self.q_sqrt) = Scalar(Zero)
           /\ ret.val[1] = [variational_expectation |-> Passed(self).val[1]] @@ Scalar(Zero)

C17_FreshElbo ==
    /\ cls = "Hensman" /\ call.op = "elbo" /\ ret.err = "" /\ pc = "returned"
    /\ rows(self.X) = MaxPoints
    /\ self.q_mu = zeros(MaxPoints, 1) /\ self.q_sqrt = eye(MaxPoints)

(* The covariance of the observations, K + s I (K + diag(s) for a variance  *)
(* for each data point), the same with the jitter term of _cholesky, and    *)
(* the observations less the mean function.                                 *)
NoisyCovariance(d) == Plus(kernel(d.kernel, d.X, d.X), Noise(d))
Jittered(A, jitter) == Plus(A, Scaled(eye(rows(A)), Mul(jitter, mean(diagonal(A)))))
LessMean(d) ==
    IF d.mean = None THEN d.y
    ELSE Listed([i \in 1..rows(d.y) |-> <<Sub(d.y[i][1], d.mean[1])>>], rows(d.y))

ExactEvidence == cls = "Exact" /\ call.op = "log_marginal_likelihood" /\ ret.err = ""

ExactTwin(d) ==
    [d EXCEPT !.Z = None, !.is_sparse = FALSE, !.variance_per_data = FALSE]

(* A rational lower bound of ln q for a rational q > 0: 2(q-1)/(q+1) when   *)
(* q >= 1, and -(1/q - q)/2 when q < 1.                                     *)
LogAtLeast(q) ==
    IF q = One \/ Positive(Sub(q, One))
    THEN Div(Mul(Number(2, 1), Sub(q, One)), Add(q, One))
    ELSE Mul(Number(1, 2), Sub(q, Div(One, q)))

(* a > b for scalars of the same pi: a.x - b.x + 1/2 ln(a.ln / b.ln) > 0,   *)
(* shown by the lower bound of the logarithm.                               *)
Exceeds(a, b) ==
    /\ a.pi = b.pi
    /\ IsRational(Sub(a.x, b.x))
    /\ Positive(Add(Sub(a.x, b.x), Mul(Number(1, 2), LogAtLeast(Div(a.ln, b.ln)))))

(* C19: Titsias.elbo() is at most Exact.log_marginal_likelihood() of the same kernel, noise, mean and data, for any inducing points Z. *)
C19_TitsiasBelowExact ==
    (cls = "Titsias" /\ call.op = "elbo" /\ ret.err = ""
        /\ Exact_log_marginal_likelihood(ExactTwin(self)).err = "") =>
        ~Exceeds(ret.val[1], Exact_log_marginal_likelihood(ExactTwin(self)).val[1])

(* x >= 0 for a number of terms of one sign, or of one positive and one     *)
(* negative term p and m, where p + m >= 0 exactly when p * p >= m * m.     *)
NonNegative(x) ==
    \/ \A t \in x : t.n > 0
    \/ /\ Cardinality(x) = 2
       /\ \E p \in x : \E m \in x :
              /\ p.n > 0 /\ m.n < 0
              /\ LET gap == Sub(Mul({p}, {p}), Mul({m}, {m}))
                 IN  gap = Zero \/ Positive(gap)

Predicted == call.op = "predict" /\ ret.err = "" /\ Len(ret.val) = 1

(* C20: the predictive variance that predict returns is non-negative for every variant: every entry in diagonal mode, every diagonal entry in full mode.  The values here are exact; the rounding of the floating-point operations is not part of them. *)
C20_VarianceNonNegative ==
    Predicted =>
        LET var == ret.val[1][2]
        IN  IF call.args.full
            THEN \A i \in 1..rows(var) : NonNegative(var[i][i])
            ELSE \A i \in 1..rows(var) : NonNegative(var[i][1])

(* A trained SparseHensman predicts, in full mode, at two points of which   *)
(* one is not a training input.                                             *)
C20_PredictedFull ==
    /\ Predicted /\ pc = "returned" /\ cls = "SparseHensman"
    /\ call.args.full /\ rows(call.args.Xs) = MaxPoints
    /\ self.q_sqrt # eye(rows(self.Z))
    /\ \E i \in 1..MaxPoints : \A j \in 1..rows(self.X) : call.args.Xs[i] # self.X[j]

----------------------------------------------------------------------------
(* The Data object of mogptk/data.py.  In the specifications below self     *)
(* holds its attributes: X is the sequence of its rows, each a sequence of  *)
(* input_dims integers (ticks of the X axis); Y holds for every row the     *)
(* observations of the constructor that its value was computed from (ids)   *)
(* and the number of transformations its value has gone through (level);    *)
(* mask is a sequence of booleans.  A prediction holds for every entry the  *)
(* row of X_pred it was made for.                                           *)

MaxRows == 3
MaxX == 4
MaxTransforms == 1

(* a[ind] for a boolean array ind, and the negation ~ind.                   *)
RECURSIVE Keep(_, _)
Keep(a, ind) ==
    IF Len(a) = 0 THEN <<>>
    ELSE IF Head(ind) THEN <<Head(a)>> \o Keep(Tail(a), Tail(ind))
    ELSE Keep(Tail(a), Tail(ind))

Not(ind) == Listed([i \in 1..Len(ind) |-> ~ind[i]], Len(ind))

(* a[idx] = False for a set idx of positions.                               *)
Cleared(a, idx) == Listed([i \in 1..Len(a) |-> a[i] /\ i \notin idx], Len(a))

(* What a method of Data ends as: the exception it raised, "" when it       *)
(* returned, and the attributes it leaves.                                  *)
Ended(err, d) == [err |-> err, d |-> d]

(* Data._detransform, lines 1217-1220: every transformation backward, each  *)
(* of them pointwise in (x, y).                                             *)
_detransform(d, y) ==
    Listed([i \in 1..Len(y) |-> [y[i] EXCEPT !.level = @ - Len(d.transformations)]], Len(y))

(* Data.get_input_dims, lines 664-675.                                           *)
get_input_dims(d) == d.input_dims

(* Data.get_data, get_all and get_removed, lines 677-720.                   *)
get_data(d) == <<Keep(d.X, d.mask), _detransform(d, Keep(d.Y, d.mask))>>
get_all(d) == <<d.X, _detransform(d, d.Y)>>
(* get_removed without the negation of the mask.                            *)
get_removed_kept(d) == <<Keep(d.X, d.mask), _detransform(d, Keep(d.Y, d.mask))>>
get_removed(d) == <<Keep(d.X, Not(d.mask)), _detransform(d, Keep(d.Y, Not(d.mask)))>>

(* np.argsort and np.take_along_axis of lines 448-451: the rows in the      *)
(* order of their first column.                                             *)
RECURSIVE Inserted(_, _)
Inserted(X, row) ==
    IF Len(X) = 0 THEN <<row>>
    ELSE IF row[1] < X[1][1] THEN <<row>> \o X
    ELSE <<X[1]>> \o Inserted(Tail(X), row)

RECURSIVE Sorted(_)
Sorted(X) == IF Len(X) = 0 THEN <<>> ELSE Inserted(Sorted(Tail(X)), Head(X))

(* Data.__init__, lines 312-484, for n >= 1 rows X of input_dims numbers    *)
(* and no formats: the rows are sorted on X when there is one input         *)
(* dimension, the mask is all True, nothing is predicted or transformed.    *)
(* The observations are numbered in the order they are stored in.           *)
Data__init__(X, dims) ==
    [X |-> IF dims = 1 THEN Sorted(X) ELSE X,
     Y |-> Listed([i \in 1..Len(X) |-> [ids |-> {i}, level |-> 0]], Len(X)),
     mask |-> Listed([i \in 1..Len(X) |-> TRUE], Len(X)),
     input_dims |-> dims,
     X_pred |-> <<>>,
     Y_mu_pred |-> {},
     Y_var_pred |-> {},
     transformations |-> <<>>]

(* Data.transform, lines 551-570, with the _data methods of lines 106-149:  *)
(* TransformDetrend wants one input dimension, and none of them can fit an  *)
(* empty array.                                                             *)
Transformers == {"TransformDetrend", "TransformNormalize", "TransformLog"}

transform(d, t) ==
    IF t = "TransformDetrend" /\ get_input_dims(d) # 1 THEN Ended("Exception", d)
    ELSE IF Len(d.X) = 0 THEN Ended(IF t = "TransformDetrend" THEN "TypeError" ELSE "ValueError", d)
    ELSE Ended("", [d EXCEPT
             !.Y = Listed([i \in 1..Len(d.Y) |-> [d.Y[i] EXCEPT !.level = @ + 1]], Len(d.Y)),
             !.transformations = Append(@, t)])

(* Data.filter, lines 572-596: the rows with start <= X < end.              *)
InRange(d, lo, hi) == Listed([i \in 1..Len(d.X) |-> d.X[i][1] >= lo /\ d.X[i][1] < hi], Len(d.X))

(* filter without line 596: the mask keeps its rows.                        *)
filter_keeping_mask(d, start, end) ==
    IF get_input_dims(d) # 1 THEN Ended("ValueError", d)
    ELSE Ended("", [d EXCEPT !.X = Keep(d.X, InRange(d, start, end)),
                             !.Y = Keep(d.Y, InRange(d, start, end))])

filter(d, start, end) ==
    IF get_input_dims(d) # 1 THEN Ended("ValueError", d)
    ELSE Ended("", [d EXCEPT !.X = Keep(d.X, InRange(d, start, end)),
                             !.Y = Keep(d.Y, InRange(d, start, end)),
                             !.mask = Keep(d.mask, InRange(d, start, end))])

(* np.arange(start, stop, step) for step > 0.                               *)
RECURSIVE arange(_, _, _)
arange(start, stop, step) ==
    IF start >= stop THEN <<>> ELSE <<start>> \o arange(start + step, stop, step)

(* f(self.Y[ind]) of aggregate: the value computed from the values of the   *)
(* rows of the bin, np.mean by default.                                     *)
RECURSIVE Reduced(_)
Reduced(ys) ==
    IF Len(ys) = 0 THEN [ids |-> {}, level |-> 0]
    ELSE [ids |-> Head(ys).ids \cup Reduced(Tail(ys)).ids, level |-> Head(ys).level]

(* Data.aggregate, lines 598-634; step is an even number of ticks.          *)
aggregate(d, step) ==
    IF get_input_dims(d) # 1 THEN Ended("ValueError", d)
    ELSE IF Len(d.X) = 0 THEN Ended("IndexError", d)
    ELSE With(arange(d.X[1][1] + step \div 2, d.X[Len(d.X)][1] + step \div 2, step),
              LAMBDA X :
         Ended("", [d EXCEPT
             !.X = Listed([i \in 1..Len(X) |-> <<X[i]>>], Len(X)),
             !.Y = Listed([i \in 1..Len(X) |->
                              Reduced(Keep(d.Y, InRange(d, X[i] - step \div 2,
                                                        X[i] + step \div 2)))],
                          Len(X)),
             !.mask = Listed([i \in 1..Len(X) |-> TRUE], Len(X))]))

(* np.random.choice(N, n, replace=False): every set of n positions.         *)
Choice(N, n) == {S \in SUBSET (1..N) : Cardinality(S) = n}

(* Data.remove_randomly, lines 724-744; pct counts halves.  The set of what *)
(* the call can end as.                                                     *)
remove_randomly(d, n, pct) ==
    With(IF n # None THEN n[1]
         ELSE IF pct = None THEN 0 ELSE (pct[1] * Len(d.X)) \div 2,
         LAMBDA count :
            IF count > Len(d.X) THEN {Ended("ValueError", d)}
            ELSE {Ended("", [d EXCEPT !.mask = Cleared(@, idx)]) : idx \in Choice(Len(d.X), count)})

(* np.where(np.logical_and(X >= start/q, X <= end/q)).                      *)
Within(d, start, end, q) ==
    {i \in 1..Len(d.X) : q * d.X[i][1] >= start /\ q * d.X[i][1] <= end}

(* np.min and np.max of self.X[:,0]; the array is not empty.                *)
RECURSIVE x_min(_)
x_min(X) == IF Len(X) = 1 \/ X[1][1] <= x_min(Tail(X)) THEN X[1][1] ELSE x_min(Tail(X))
RECURSIVE x_max(_)
x_max(X) == IF Len(X) = 1 \/ X[1][1] >= x_max(Tail(X)) THEN X[1][1] ELSE x_max(Tail(X))

(* Data.remove_range, lines 746-774.                                        *)
remove_range(d, start, end) ==
    IF get_input_dims(d) # 1 THEN Ended("Exception", d)
    ELSE IF Len(d.X) = 0 /\ (start = None \/ end = None) THEN Ended("ValueError", d)
    ELSE Ended("", [d EXCEPT !.mask =
             Cleared(@, Within(d, IF start = None THEN x_min(d.X) ELSE start[1],
                                  IF end = None THEN x_max(d.X) ELSE end[1], 1))])

(* max(0.0, min(1.0, v)) for v counted in halves.                           *)
Clamped(v) == IF v < 0 THEN 0 ELSE IF v > 2 THEN 2 ELSE v

(* Data.remove_rel_range, lines 776-793; start and end count halves.        *)
remove_rel_range(d, start, end) ==
    IF get_input_dims(d) # 1 THEN Ended("Exception", d)
    ELSE IF Len(d.X) = 0 THEN Ended("ValueError", d)
    ELSE Ended("", [d EXCEPT !.mask =
             Cleared(@, Within(d, 2 * x_min(d.X) + Clamped(start) * (x_max(d.X) - x_min(d.X)),
                                  2 * x_min(d.X) + Clamped(end) * (x_max(d.X) - x_min(d.X)), 2))])

(* The loop of Data.remove_random_ranges, lines 821-824, with k iterations  *)
(* to go: np.random.randint raises ValueError when no location is left.     *)
RECURSIVE RangesRemoved(_, _, _, _, _)
RangesRemoved(d, locs, mask, duration, k) ==
    IF k = 0 THEN {Ended("", [d EXCEPT !.mask = mask])}
    ELSE IF \A i \in 1..Len(locs) : ~locs[i] THEN {Ended("ValueError", [d EXCEPT !.mask = mask])}
    ELSE UNION {RangesRemoved(d,
                    Cleared(locs, {j \in 1..Len(d.X) : d.X[j][1] > d.X[i][1] - duration
                                                    /\ d.X[j][1] < d.X[i][1] + duration}),
                    Cleared(mask, {j \in 1..Len(d.X) : d.X[j][1] >= d.X[i][1]
                                                    /\ d.X[j][1] < d.X[i][1] + duration}),
                    duration, k - 1) : i \in {j \in 1..Len(locs) : locs[j]}}

(* locs of lines 819-820: the rows a range can start at, and the first row  *)
(* after them.                                                              *)
Locations(d, duration) ==
    With({i \in 1..Len(d.X) : d.X[i][1] <= d.X[Len(d.X)][1] - duration},
         LAMBDA low :
            Listed([i \in 1..Len(d.X) |-> i \in low \/ i = Cardinality(low) + 1], Len(d.X)))

(* Data.remove_random_ranges, lines 795-824, for a duration above zero. The *)
(* set of what the call can end as.                                         *)
remove_random_ranges(d, n, duration) ==
    IF get_input_dims(d) # 1 THEN {Ended("Exception", d)}
    ELSE IF n < 1 THEN {Ended("", d)}
    ELSE IF Len(d.X) = 0 THEN {Ended("IndexError", d)}
    ELSE IF (d.X[Len(d.X)][1] - d.X[1][1]) - n * duration <= 0 THEN {Ended("Exception", d)}
    ELSE RangesRemoved(d, Locations(d, duration), d.mask, duration, n)

(* The points to predict at.  A row of X_pred is a sequence of fractions of *)
(* a tick [n, d] in lowest terms; a stored prediction holds for each of its *)
(* entries the row of X_pred it was made for.                               *)
Frac(n, d) == With(GCD(Abs(n), d), LAMBDA g : [n |-> n \div g, d |-> d \div g])

(* x.astype(float) and x.reshape(-1, 1) of set_pred, lines 936-939, for a   *)
(* list of numbers and for a list of rows.                                  *)
AsColumn(x) == Listed([i \in 1..Len(x) |-> <<Frac(x[i], 1)>>], Len(x))
AsRows(x) ==
    Listed([i \in 1..Len(x) |-> Listed([j \in 1..Len(x[i]) |-> Frac(x[i][j], 1)], Len(x[i]))],
           Len(x))

(* Data.set_pred, lines 921-947: x is a list, of shape (n,) when ndim is 1  *)
(* and (n, width) when it is 2, or something that is no list or array.    *)
set_pred(d, type, ndim, width, x) ==
    IF type # "list" THEN Ended("ValueError", d)
    ELSE IF ndim = 2 /\ width # get_input_dims(d) THEN Ended("ValueError", d)
    ELSE IF ndim = 1 /\ get_input_dims(d) # 1 THEN Ended("ValueError", d)
    ELSE Ended("", [d EXCEPT !.X_pred = IF ndim = 1 THEN AsColumn(x) ELSE AsRows(x),
                             !.Y_mu_pred = {},
                             !.Y_var_pred = {}])

(* The sequence f[lo], ..., f[hi].                                          *)
RECURSIVE Ranged(_, _, _)
Ranged(f, lo, hi) ==
    IF lo > hi THEN <<>>
    ELSE IF lo = hi THEN <<f[lo]>>
    ELSE Ranged(f, lo, (lo + hi) \div 2) \o Ranged(f, (lo + hi) \div 2 + 1, hi)

(* np.linspace(start, end, n), n >= 0.                                      *)
linspace(start, end, n) ==
    Ranged([i \in 1..n |-> IF n = 1 THEN Frac(start, 1)
                           ELSE Frac(start * (n - 1) + (i - 1) * (end - start), n - 1)], 1, n)

(* np.arange(start, end + step, step) for the step num/den > 0: it has      *)
(* ceil((end + step - start) / step) points.                                *)
arange_by(start, end, num, den) ==
    With(((end - start) * den + num + num - 1) \div num, LAMBDA length :
        Ranged([i \in 1..length |-> Frac(start * den + (i - 1) * num, den)], 1, length))

DefaultPoints == 100

(* Data.set_pred_range, lines 857-919: start, end, n and step are None or a *)
(* number, step above zero.                                                 *)
set_pred_range(d, start, end, n, step) ==
    IF get_input_dims(d) # 1 THEN Ended("Exception", d)
    ELSE IF Len(d.X) = 0 /\ (start = None \/ end = None) THEN Ended("IndexError", d)
    ELSE With(IF start = None THEN d.X[1][1] ELSE start[1], LAMBDA lo :
         With(IF end = None THEN d.X[Len(d.X)][1] ELSE end[1], LAMBDA hi :
            IF hi <= lo THEN Ended("ValueError", d)
            ELSE IF step = None /\ n # None
            THEN IF n[1] < 0 THEN Ended("ValueError", [d EXCEPT !.X_pred = <<>>])
                 ELSE Ended("", [d EXCEPT !.X_pred =
                         With(linspace(lo, hi, n[1]), LAMBDA col :
                              Ranged([i \in 1..Len(col) |-> <<col[i]>>], 1, Len(col)))])
            ELSE Ended("", [d EXCEPT !.X_pred =
                     With(IF step = None THEN arange_by(lo, hi, hi - lo, DefaultPoints)
                          ELSE arange_by(lo, hi, step[1], 1),
                          LAMBDA col :
                              Ranged([i \in 1..Len(col) |-> <<col[i]>>], 1, Len(col)))])))

(* What a model stores when it has predicted at self.X_pred: under its name *)
(* a mean and a variance with one entry for every row of X_pred.            *)
store_prediction(d, name) ==
    [d EXCEPT !.Y_mu_pred = {p \in @ : p[1] # name} \cup {<<name, d.X_pred>>},
              !.Y_var_pred = {p \in @ : p[1] # name} \cup {<<name, d.X_pred>>}]

Stored(preds, name) == CHOOSE p \in preds : p[1] = name

(* Whether arrays of lengths a and b broadcast against each other.          *)
Broadcasts(a, b) == a = b \/ a = 1 \/ b = 1

(* Data.get_pred, lines 828-855: the TransformDetrend of lines 119-121 adds *)
(* a polynomial of X_pred to the stored values.                             *)
get_pred(d, name) ==
    IF \A p \in d.Y_mu_pred : p[1] # name THEN Raised("Exception")
    ELSE IF /\ \E i \in 1..Len(d.transformations) : d.transformations[i] = "TransformDetrend"
            /\ ~Broadcasts(Len(Stored(d.Y_mu_pred, name)[2]), Len(d.X_pred))
    THEN Raised("ValueError")
    ELSE Returned(<<d.X_pred, Stored(d.Y_mu_pred, name)[2]>>)

(* The calls on a Data object.  Every method runs to its end in one step:   *)
(* call and ret hold what was called and how it ended, self the attributes  *)
(* it left.                                                                 *)
DataEnds(op, args, r) ==
    /\ Returns(op, args, Outcome(r.err, <<>>, <<>>))
    /\ self' = r.d
    /\ pc' = "returned"
    /\ UNCHANGED <<objs, cls>>

DataObserves(op, args, r) ==
    /\ Returns(op, args, r)
    /\ pc' = "returned"
    /\ UNCHANGED <<objs, self, cls>>

Optional(S) == {None} \cup {Some(v) : v \in S}

(* The arrays given to the constructor: a column of 1..MaxRows numbers, or  *)
(* rows of two numbers.                                                     *)
Columns1 == UNION {[1..k -> {<<v>> : v \in 0..MaxX}] : k \in 1..MaxRows}
Columns2 == UNION {[1..k -> {<<v, w>> : v, w \in 0..1}] : k \in 1..2}

InitData ==
    /\ objs = <<>>
    /\ cls = "Data"
    /\ self \in {Data__init__(X, 1) : X \in Columns1} \cup {Data__init__(X, 2) : X \in Columns2}
    /\ pc = "ready"
    /\ call = NoCall
    /\ ret = NoReturn
    /\ steps = <<>>

Data_transform ==
    /\ pc = "ready" /\ cls = "Data"
    /\ Len(self.transformations) < MaxTransforms
    /\ \E t \in {"TransformDetrend", "TransformNormalize"} :
          DataEnds("transform", [transformer |-> t], transform(self, t))

Data_filter ==
    /\ pc = "ready" /\ cls = "Data"
    /\ \E start \in 0..MaxX : \E end \in start..MaxX :
          DataEnds("filter", [start |-> start, end |-> end], filter(self, start, end))

Data_aggregate ==
    /\ pc = "ready" /\ cls = "Data"
    /\ \E duration \in {2, 4} :
          DataEnds("aggregate", [duration |-> duration], aggregate(self, duration))

Data_remove_randomly ==
    /\ pc = "ready" /\ cls = "Data"
    /\ \E n \in Optional(0..MaxRows), pct \in Optional(0..2) :
          /\ IF n = None THEN TRUE ELSE pct = None
          /\ \E r \in remove_randomly(self, n, pct) :
             DataEnds("remove_randomly", [n |-> n, pct |-> pct], r)

Data_remove_range ==
    /\ pc = "ready" /\ cls = "Data"
    /\ \E start, end \in Optional(0..MaxX) :
          /\ IF start = None \/ end = None THEN TRUE ELSE start[1] <= end[1]
          /\ DataEnds("remove_range", [start |-> start, end |-> end],
                      remove_range(self, start, end))

Data_remove_rel_range ==
    /\ pc = "ready" /\ cls = "Data"
    /\ \E start, end \in 0..2 :
          DataEnds("remove_rel_range", [start |-> start, end |-> end],
                   remove_rel_range(self, start, end))

Data_remove_random_ranges ==
    /\ pc = "ready" /\ cls = "Data"
    /\ \E n \in 0..MaxRows, duration \in 1..2 :
          \E r \in remove_random_ranges(self, n, duration) :
             DataEnds("remove_random_ranges", [n |-> n, duration |-> duration], r)

Data_get_data ==
    /\ pc = "ready" /\ cls = "Data"
    /\ DataObserves("get_data", <<>>, Returned(get_data(self)))

Data_get_all ==
    /\ pc = "ready" /\ cls = "Data"
    /\ DataObserves("get_all", <<>>, Returned(get_all(self)))

Data_get_removed ==
    /\ pc = "ready" /\ cls = "Data"
    /\ DataObserves("get_removed", <<>>, Returned(get_removed(self)))

NextData ==
    \/ Data_transform
    \/ Data_filter
    \/ Data_aggregate
    \/ Data_remove_randomly
    \/ Data_remove_range
    \/ Data_remove_rel_range
    \/ Data_remove_random_ranges
    \/ Data_get_data
    \/ Data_get_all
    \/ Data_get_removed
    \/ Resume

SpecData == InitData /\ [][NextData]_vars

(* The calls that set and read the points to predict at.                    *)
MaxPred == 2

(* Lists of at most MaxPred numbers and of at most MaxPred rows of width w. *)
Lists1 == UNION {[1..k -> 0..1] : k \in 0..MaxPred}
Lists2(w) == UNION {[1..k -> [1..w -> 0..1]] : k \in 0..MaxPred}

InitPred ==
    /\ objs = <<>>
    /\ cls = "Data"
    /\ self \in {Data__init__(X, 1) : X \in UNION {[1..k -> {<<v>> : v \in 0..2}] : k \in 1..2}}
                \cup {Data__init__(<<<<0, 1>>, <<1, 0>>>>, 2)}
    /\ pc = "ready"
    /\ call = NoCall
    /\ ret = NoReturn
    /\ steps = <<>>

Data_detrend ==
    /\ pc = "ready" /\ cls = "Data"
    /\ Len(self.transformations) < MaxTransforms
    /\ DataEnds("transform", [transformer |-> "TransformDetrend"],
                transform(self, "TransformDetrend"))

Data_set_pred ==
    /\ pc = "ready" /\ cls = "Data"
    /\ \/ \E x \in Lists1 :
             DataEnds("set_pred", [type |-> "list", ndim |-> 1, x |-> x],
                      set_pred(self, "list", 1, 1, x))
       \/ \E w \in 1..2 : \E x \in Lists2(w) :
             DataEnds("set_pred", [type |-> "list", ndim |-> 2, x |-> x],
                      set_pred(self, "list", 2, w, x))
       \/ DataEnds("set_pred", [type |-> "int", ndim |-> 0, x |-> <<>>],
                   set_pred(self, "int", 0, 0, <<>>))

Data_set_pred_range ==
    /\ pc = "ready" /\ cls = "Data"
    /\ \E start, end \in Optional(0..2), n \in Optional(-1..3), step \in Optional(1..2) :
          DataEnds("set_pred_range", [start |-> start, end |-> end, n |-> n, step |-> step],
                   set_pred_range(self, start, end, n, step))

PredNames == {"MOSM"}

(* A model named name predicts at the points of this Data object and stores *)
(* the prediction in it.                                                    *)
Model_predict ==
    /\ pc = "ready" /\ cls = "Data"
    /\ \E name \in PredNames :
          DataEnds("predict", [name |-> name], Ended("", store_prediction(self, name)))

Data_get_pred ==
    /\ pc = "ready" /\ cls = "Data"
    /\ \E name \in PredNames \cup {"CONV"} :
          DataObserves("get_pred", [name |-> name], get_pred(self, name))

NextPred ==
    \/ Data_detrend
    \/ Data_set_pred
    \/ Data_set_pred_range
    \/ Model_predict
    \/ Data_get_pred
    \/ Resume

SpecPred == InitPred /\ [][NextPred]_vars

----------------------------------------------------------------------------
(* The SM_LMC model of mogptk/models/sm_lmc.py.  self holds Q, the          *)
(* transformed training outputs of every channel of its data set, the kind  *)
(* of likelihood with its scale (a scalar when ndim is 0, else one value    *)
(* for every channel), and for the mean and the variance of every spectral  *)
(* kernel and for the weight whether they are as the constructor drew them  *)
(* ("random") or as init_parameters estimated them ("estimated").  Numbers  *)
(* are fractions [n, d] in lowest terms, a method name is the sequence of   *)
(* its characters.                                                          *)
MaxQ == 2
MaxChannels == 2

RECURSIVE Sum(_)
Sum(y) == IF Len(y) = 0 THEN 0 ELSE Head(y) + Sum(Tail(y))

Squares(y) == Listed([i \in 1..Len(y) |-> y[i] * y[i]], Len(y))

(* Len(y)^2 times the variance of y: the mean of the squared distances to   *)
(* the mean.                                                                *)
Spread(y) == Len(y) * Sum(Squares(y)) - Sum(y) * Sum(y)

ExactRoot(v) == CHOOSE r \in 0..v : r * r = v

(* numpy's Y[j].var() and Y[j].std() for outputs whose deviation is a       *)
(* fraction.                                                                *)
var(y) == Frac(Spread(y), Len(y) * Len(y))
std(y) == Frac(ExactRoot(Spread(y)), Len(y))

FracAdd(a, b) == Frac(a.n * b.d + b.n * a.d, a.d * b.d)

RECURSIVE FracSum(_)
FracSum(fs) == IF Len(fs) = 0 THEN Frac(0, 1) ELSE FracAdd(Head(fs), FracSum(Tail(fs)))

(* np.mean of a list of fractions.                                          *)
np_mean(fs) == With(FracSum(fs), LAMBDA total : Frac(total.n, total.d * Len(fs)))

(* str.lower on the characters method names are written with.               *)
LowerCase ==
    [c \in {"B", "N", "S", "E", "L", "M", "O", "b", "n", "s", "e", "l", "m", "o"} |->
        CASE c = "B" -> "b" [] c = "N" -> "n" [] c = "S" -> "s" [] c = "E" -> "e"
          [] c = "L" -> "l" [] c = "M" -> "m" [] c = "O" -> "o" [] OTHER -> c]

lower(method) == Listed([i \in 1..Len(method) |-> LowerCase[method[i]]], Len(method))

ValidMethod(method) ==
    lower(method) \in {<<"b", "n", "s", "e">>, <<"l", "s">>, <<"s", "m">>}

Filled_with(v, n) == Listed([i \in 1..n |-> v], n)

(* SM_LMC.__init__, lines 42-66: the kernel parameters are drawn at random; *)
(* the likelihood is the one of the inference.                              *)
SM_LMC__init__(dataset, Q, likelihood, ndim) ==
    [dataset |-> dataset,
     Q |-> Q,
     mean |-> Filled_with("random", Q),
     variance |-> Filled_with("random", Q),
     weight |-> "random",
     likelihood |-> likelihood,
     scale |-> [ndim |-> ndim,
                value |-> Filled_with(Frac(1, 1), IF ndim = 0 THEN 1 ELSE Len(dataset))]]

(* The noise block of init_parameters, lines 106-113.                       *)
Y_std(m) == Listed([j \in 1..Len(m.dataset) |-> std(m.dataset[j])], Len(m.dataset))

NoiseAssigned(m) ==
    IF m.likelihood # "GaussianLikelihood" THEN m
    ELSE IF m.scale.ndim = 0 THEN [m EXCEPT !.scale.value = <<np_mean(Y_std(m))>>]
    ELSE [m EXCEPT !.scale.value = Y_std(m)]

(* SM_LMC.init_parameters, lines 68-113; found tells whether the estimation *)
(* of the data set returned any peaks.                                      *)
init_parameters(m, method, found) ==
    IF ~ValidMethod(method) THEN Ended("ValueError", m)
    ELSE IF ~found THEN Ended("", m)
    ELSE Ended("", NoiseAssigned([m EXCEPT !.mean = Filled_with("estimated", m.Q),
                                           !.variance = Filled_with("estimated", m.Q),
                                           !.weight = "estimated"]))

(* The outputs of a channel: two observations.                              *)
ChannelOutputs == [1..2 -> {0, 2, 60}]

Methods ==
    {<<"B", "N", "S", "E">>, <<"b", "n", "s", "e">>, <<"L", "S">>, <<"l", "s">>,
     <<"S", "M">>, <<"S", "m">>, <<"B", "N", "S">>, <<"M", "O", "S", "M">>}

InitLMC ==
    /\ objs = <<>>
    /\ cls = "SM_LMC"
    /\ self \in {SM_LMC__init__(dataset, Q, likelihood, ndim) :
                    dataset \in UNION {[1..k -> ChannelOutputs] : k \in 1..MaxChannels},
                    Q \in 1..MaxQ,
                    likelihood \in {"GaussianLikelihood", "StudentTLikelihood"},
                    ndim \in 0..1}
    /\ pc = "ready"
    /\ call = NoCall
    /\ ret = NoReturn
    /\ steps = <<>>

SM_LMC_init_parameters ==
    /\ pc = "ready" /\ cls = "SM_LMC"
    /\ \E method \in Methods, found \in BOOLEAN :
          DataEnds("init_parameters", [method |-> method, found |-> found],
                   init_parameters(self, method, found))

NextLMC ==
    \/ SM_LMC_init_parameters
    \/ Resume

SpecLMC == InitLMC /\ [][NextLMC]_vars

----------------------------------------------------------------------------
(* The rows of a at the positions S, in the order of a.                     *)
RECURSIVE AtFrom(_, _, _)
AtFrom(a, S, i) ==
    IF i > Len(a) THEN <<>>
    ELSE IF i \in S THEN <<a[i]>> \o AtFrom(a, S, i + 1) ELSE AtFrom(a, S, i + 1)

At(a, S) == AtFrom(a, S, 1)

Splits(all, kept, removed) ==
    \E S \in SUBSET (1..Len(all[1])) :
       /\ kept = <<At(all[1], S), At(all[2], S)>>
       /\ removed = <<At(all[1], (1..Len(all[1])) \ S), At(all[2], (1..Len(all[1])) \ S)>>

Requested(d, args) ==
    IF args.n # None THEN args.n[1]
    ELSE IF args.pct = None THEN 0 ELSE (args.pct[1] * Len(d.X)) \div 2

(* C22: remove_randomly(n) with n at most the number of observations, or    *)
(* pct=p with n = int(p * number of observations), leaves get_removed()     *)
(* with n observations more than before, also when observations were        *)
(* removed earlier.                                                         *)
C22_RemovesN ==
    [][(/\ cls = "Data" /\ pc = "ready" /\ call'.op = "remove_randomly"
        /\ Requested(self, call'.args) <= Len(get_data(self)[1]))
       => /\ ret'.err = ""
          /\ Len(get_removed(self')[1]) =
                Len(get_removed(self)[1]) + Requested(self, call'.args)]_vars

(* The start and end set_pred_range works with: the first and the last row  *)
(* of X when they are not given.                                            *)
RangeStart(d, args) == IF args.start = None THEN d.X[1][1] ELSE args.start[1]
RangeEnd(d, args) == IF args.end = None THEN d.X[Len(d.X)][1] ELSE args.end[1]

Inside(p, lo, hi) == lo * p.d <= p.n /\ p.n <= hi * p.d

(* C23: on one-dimensional data set_pred_range with neither n nor step      *)
(* leaves an X_pred of exactly 100 points inside [start, end]; with n (two  *)
(* or more) and no step it leaves exactly n points, the first start and the *)
(* last end; with end <= start it raises ValueError and leaves X_pred as it *)
(* was.                                                                     *)
C23_PredRange ==
    [][(/\ cls = "Data" /\ pc = "ready" /\ call'.op = "set_pred_range"
        /\ self.input_dims = 1 /\ Len(self.X) >= 1)
       => With(RangeStart(self, call'.args), LAMBDA lo :
          With(RangeEnd(self, call'.args), LAMBDA hi :
             IF hi <= lo THEN ret'.err = "ValueError" /\ self'.X_pred = self.X_pred
             ELSE IF call'.args.step # None THEN TRUE
             ELSE IF call'.args.n = None
             THEN /\ ret'.err = ""
                  /\ Len(self'.X_pred) = 100
                  /\ \A i \in 1..Len(self'.X_pred) : Inside(self'.X_pred[i][1], lo, hi)
             ELSE call'.args.n[1] >= 2 =>
                  /\ ret'.err = ""
                  /\ Len(self'.X_pred) = call'.args.n[1]
                  /\ self'.X_pred[1][1] = Frac(lo, 1)
                  /\ self'.X_pred[Len(self'.X_pred)][1] = Frac(hi, 1)))]_vars

(* The noise of channel j: the scale of the likelihood.                     *)
NoiseOf(m, j) == IF m.scale.ndim = 0 THEN m.scale.value[1] ELSE m.scale.value[j]

Thirtieth(f) == Frac(f.n, 30 * f.d)

(* C24: init_parameters with the method BNSE, LS or SM in any case, on a    *)
(* model with a Gaussian likelihood whose estimation found peaks, leaves    *)
(* the noise of every channel at 1/30 of the variance of the transformed    *)
(* training outputs of the channel; with any other method it raises         *)
(* ValueError and changes no parameter.                                     *)
C24_NoiseInitialized ==
    [][(/\ cls = "SM_LMC" /\ pc = "ready" /\ call'.op = "init_parameters"
        /\ self.likelihood = "GaussianLikelihood" /\ call'.args.found)
       => IF ValidMethod(call'.args.method)
          THEN /\ ret'.err = ""
               /\ \A j \in 1..Len(self.dataset) :
                     NoiseOf(self', j) = Thirtieth(var(self.dataset[j]))
          ELSE ret'.err = "ValueError" /\ self' = self]_vars

(* C25: when set_pred or set_pred_range replaces X_pred the stored          *)
(* Y_mu_pred and Y_var_pred are cleared, and every stored prediction has as *)
(* many entries as X_pred has rows.                                         *)
C25_PredictionsFollowXPred ==
    [][cls = "Data" =>
          /\ (pc = "ready" /\ call'.op \in {"set_pred", "set_pred_range"} /\ ret'.err = "")
                => self'.Y_mu_pred = {} /\ self'.Y_var_pred = {}
          /\ \A p \in self'.Y_mu_pred \cup self'.Y_var_pred :
                Len(p[2]) = Len(self'.X_pred)]_vars

(* C26: in every state X, Y and mask have the same number of rows.          *)
C26_SameRows ==
    cls = "Data" => Len(self.X) = Len(self.Y) /\ Len(self.Y) = Len(self.mask)

(* filter has dropped some rows and kept others of data with removed        *)
(* observations.                                                            *)
C26_Witness ==
    /\ cls = "Data" /\ pc = "returned" /\ call.op = "filter" /\ ret.err = ""
    /\ Len(self.X) = 2
    /\ \E i \in 1..Len(self.mask) : ~self.mask[i]
    /\ \E i \in 1..Len(self.Y) : \E id \in self.Y[i].ids : id > 2

Untouched(d) == \A i \in 1..Len(d.mask) : d.mask[i]

Passes(d, args) ==
    (d.X[Len(d.X)][1] - d.X[1][1]) - args.n * args.duration > 0

(* C27: on sorted one-dimensional data with nothing removed,                *)
(* remove_random_ranges(n, duration) with n >= 1 and duration > 0 that      *)
(* passes the check range - n*duration > 0 returns and leaves at least one  *)
(* observation in get_data(); when the check fails it raises and the mask   *)
(* is unchanged.                                                            *)
C27_RangesLeaveData ==
    [][(/\ cls = "Data" /\ pc = "ready" /\ call'.op = "remove_random_ranges"
        /\ self.input_dims = 1 /\ Len(self.X) >= 1 /\ Untouched(self)
        /\ call'.args.n >= 1 /\ call'.args.duration > 0)
       => IF Passes(self, call'.args)
          THEN ret'.err = "" /\ Len(get_data(self')[1]) >= 1
          ELSE ret'.err # "" /\ self'.mask = self.mask]_vars

(* The bin of width step an x falls in, the bins starting at first.         *)
BinOf(x, first, step) == (x - first) \div step + 1

(* C28: aggregate(duration) on sorted one-dimensional data puts every       *)
(* observation, the last one included, in exactly one of the consecutive    *)
(* bins [first + k*duration, first + (k+1)*duration): the observation       *)
(* contributes to the aggregated Y of that bin and to no other, and the new *)
(* X of a bin is its centre.                                                *)
C28_EveryObservationInOneBin ==
    [][(/\ cls = "Data" /\ pc = "ready" /\ call'.op = "aggregate"
        /\ self.input_dims = 1 /\ Len(self.X) >= 1)
       => /\ ret'.err = ""
          /\ \A i \in 1..Len(self.X) :
                With(BinOf(self.X[i][1], self.X[1][1], call'.args.duration), LAMBDA k :
                    /\ k <= Len(self'.Y)
                    /\ \A j \in 1..Len(self'.Y) :
                          self.Y[i].ids # {} =>
                             (self.Y[i].ids \subseteq self'.Y[j].ids <=> j = k))
          /\ \A j \in 1..Len(self'.X) :
                2 * self'.X[j][1] =
                    2 * self.X[1][1] + (2 * j - 1) * call'.args.duration]_vars

============================================================================
